---------------------------- MODULE Spec2Model ----------------------------
(* Redo log engine of InnoDB (log0log.cc, log0log.h) and the commit path   *)
(* of the mini-transaction (mtr0mtr.cc): the global log state log_sys,     *)
(* the two group-commit locks, the circular data file of redo_t, and the   *)
(* threads that commit mini-transactions, write the log and checkpoint.    *)
EXTENDS Integers, Sequences, FiniteSets, TLC

(***************************************************************************)
(* Bounds of the model                                                     *)
(***************************************************************************)
\* number of operations started in one behaviour: mini-transactions and
\* top-level calls of log_write_up_to / log_checkpoint
MaxOps == 3
\* number of pages written back by the page cleaner
MaxPageFlushes == 1

Threads == {"t1", "t2"}
Pages == {"p1", "p2"}
NoThread == "none"
NoPage == "nopage"
\* sizes of the record buffers (m_log.size()) of redo-logging MTRs
MtrLens == {500, 200000}

(***************************************************************************)
(* Program constants                                                       *)
(***************************************************************************)
OS_FILE_LOG_BLOCK_SIZE == 512
LOG_BLOCK_HDR_SIZE == 12
LOG_BLOCK_CHECKSUM == 4
LOG_BUF_WRITE_MARGIN == 4 * OS_FILE_LOG_BLOCK_SIZE
LOG_BUF_FLUSH_RATIO == 2
LOG_POOL_CHECKPOINT_RATIO_ASYNC == 32
LOG_POOL_PREFLUSH_RATIO_SYNC == 16
LOG_POOL_PREFLUSH_RATIO_ASYNC == 8
CHECKPOINT_SIZE == 1 + 8 + 6 + 4
\* configuration: innodb_page_size, innodb_log_write_ahead_size,
\* innodb_log_buffer_size at start-up, innodb_log_file_size (the least
\* multiple of 512 that log_set_capacity() accepts), which is also the size
\* of the circular data file
srv_page_size == 4096
srv_log_write_ahead_size == 512
InitLogBufferSize == 40960
LogFileSize == 437248
DataFileSize == LogFileSize
srv_thread_concurrency == 0
\* whether the data file was opened with O_DSYNC (m_durable_writes)
DurableWrites == FALSE
LOG_BUF_FLUSH_MARGIN == LOG_BUF_WRITE_MARGIN + 4 * srv_page_size
LOG_CHECKPOINT_FREE_PER_THREAD == 4 * srv_page_size
LOG_CHECKPOINT_EXTRA_FREE == 8 * srv_page_size
\* capacity of one block of mtr_buf_t: is_small() is "one block only"
MTR_BUF_BLOCK_SIZE == 512

MTR_LOG_ALL == "MTR_LOG_ALL"
MTR_LOG_NONE == "MTR_LOG_NONE"
MTR_LOG_NO_REDO == "MTR_LOG_NO_REDO"
MTR_MEMO_PAGE_S_FIX == "MTR_MEMO_PAGE_S_FIX"
MTR_MEMO_PAGE_X_FIX == "MTR_MEMO_PAGE_X_FIX"
MTR_MEMO_PAGE_SX_FIX == "MTR_MEMO_PAGE_SX_FIX"
MTR_MEMO_MODIFY == "MTR_MEMO_MODIFY"

VARIABLES
  log_sys,               \* log_t log_sys: the fields of the global log state
  srv_log_buffer_size,   \* size of one half of the log buffer
  log_mutex,             \* owner of log_sys.mutex
  log_flush_order_mutex, \* owner of log_sys.log_flush_order_mutex
  write_lock,            \* group_commit_lock write_lock
  flush_lock,            \* group_commit_lock flush_lock
  new_redo,              \* redo::new_redo
  buf_pool,              \* pages of the buffer pool
  pc,                    \* position of each thread
  mtr,                   \* the mtr_t of each thread
  loc,                   \* arguments and local variables of each thread
  aborted,               \* ib::fatal() or a failed ut_a() ended the process
  mtr_hist,              \* history: records appended to the data file
  flush_hist,            \* history: insertions into the flush list
  ckpt_hist,             \* history: checkpoint records handed to the main file
  io_error,              \* history: some I/O call of the log returned an error
  empty_commit,          \* history: a mini-transaction committed without log
  release_hist,          \* history: memo slots released, in order
  capacity_hist,         \* history: the last call of log_set_capacity
  srv,                   \* the server around the log, as the shutdown sees it
  n_ops,                 \* history: operations started
  n_page_flushes         \* history: pages written back

vars == <<log_sys, srv_log_buffer_size, log_mutex, log_flush_order_mutex,
          write_lock, flush_lock, new_redo, buf_pool, pc, mtr, loc, aborted,
          mtr_hist, flush_hist, ckpt_hist, io_error, empty_commit,
          release_hist, capacity_hist, srv, n_ops, n_page_flushes>>

\* groups used in UNCHANGED
locks == <<log_mutex, log_flush_order_mutex, write_lock, flush_lock>>
hists == <<mtr_hist, flush_hist, ckpt_hist, io_error, empty_commit,
          release_hist, capacity_hist>>
counts == <<n_ops, n_page_flushes>>

(***************************************************************************)
(* Pure helpers                                                            *)
(***************************************************************************)
ut_calc_align(n, a) == ((n + a - 1) \div a) * a

framing_size == LOG_BLOCK_HDR_SIZE + LOG_BLOCK_CHECKSUM

trailer_offset == OS_FILE_LOG_BLOCK_SIZE - LOG_BLOCK_CHECKSUM

\* number of bytes mlog_encode_varint() emits for v
mlog_varint_size(v) ==
  IF v < 128 THEN 1
  ELSE IF v < 128 + 16384 THEN 2
  ELSE IF v < 128 + 16384 + 2097152 THEN 3
  ELSE IF v < 128 + 16384 + 2097152 + 268435456 THEN 4
  ELSE 5

Min(S) == CHOOSE x \in S : \A y \in S : x <= y

(***************************************************************************)
(* Initial state: log_t::create(), log_t::file::create(),                  *)
(* redo_t::initialize_files() and redo_t::open_files()                     *)
(***************************************************************************)
NoMtr == [active |-> FALSE, m_log_mode |-> MTR_LOG_ALL,
          m_log_size |-> 0, m_modifications |-> FALSE,
          m_made_dirty |-> FALSE, m_memo |-> <<>>, m_commit_lsn |-> 0]

\* the server is running: no shutdown state, no transaction, the page cleaner
\* at work; lsn is the local variable of
\* logs_empty_and_mark_files_at_shutdown() once it is past its last goto loop,
\* flushed_lsn the LSN stamped into the tablespace headers, repeated a history
\* of the goto loop after log_make_checkpoint()
\* log_set_capacity has not been called
NoCall == [file_size |-> 0, ret |-> TRUE]

NoSrv == [srv_shutdown_state |-> "SRV_SHUTDOWN_NONE", n_trx |-> 0,
          buf_page_cleaner_is_active |-> TRUE, pending_io |-> 0,
          lsn |-> 0, flushed_lsn |-> 0, repeated |-> FALSE]

NoLoc == [len |-> 0, start_lsn |-> 0,
          wut_lsn |-> 0, wut_flush |-> FALSE, wut_write_lsn |-> 0,
          wut_buf_size |-> 0, wut_flush_lsn |-> 0, wut_ret |-> "idle", wut_how |-> "none",
          ck_flush_lsn |-> 0, ck_success |-> FALSE, ck_ret |-> "idle",
          ck_dirty |-> {}, ck_wrote |-> FALSE, ck_pending |-> FALSE,
          ck_last |-> 0, cm_new_oldest |-> 0, cm_do_checkpoint |-> FALSE,
          cm_ret |-> "idle"]

\* redo_t::initialize_files() and open_files() on a data file of size bytes
initialize_files(size) ==
  [m_data_file_position |-> 0, m_sequence_bit |-> 1,
   m_main_file_size |-> CHECKPOINT_SIZE, m_data_file_size |-> size]

\* log_t::create() and the threads before their first operation
InitLog ==
  /\ log_sys = [lsn |-> 1, buf_free |-> 0, first_in_use |-> TRUE,
                max_buf_free |-> InitLogBufferSize \div LOG_BUF_FLUSH_RATIO
                                 - LOG_BUF_FLUSH_MARGIN,
                check_flush_or_checkpoint |-> TRUE,
                buf_next_to_write |-> 0, write_lsn |-> 0,
                flushed_to_disk_lsn |-> 0, log_capacity |-> 0,
                max_modified_age_async |-> 0, max_modified_age_sync |-> 0,
                max_checkpoint_age_async |-> 0, max_checkpoint_age |-> 0,
                next_checkpoint_no |-> 0, next_checkpoint_lsn |-> 0,
                n_pending_checkpoint_writes |-> 0,
                last_checkpoint_lsn |-> 1]
  /\ srv_log_buffer_size = InitLogBufferSize
  /\ log_mutex = NoThread
  /\ log_flush_order_mutex = NoThread
  /\ write_lock = [value |-> 0, pending |-> 0, owner |-> NoThread]
  /\ flush_lock = [value |-> 0, pending |-> 0, owner |-> NoThread]
  /\ buf_pool = [p \in Pages |->
                   [oldest_modification |-> 0, newest_modification |-> 0,
                    x_latch |-> NoThread, s_latch |-> {}]]
  /\ pc = [t \in Threads |-> "idle"]
  /\ mtr = [t \in Threads |-> NoMtr]
  /\ loc = [t \in Threads |-> NoLoc]
  /\ aborted = FALSE
  /\ mtr_hist = <<>>
  /\ flush_hist = <<>>
  /\ ckpt_hist = <<>>
  /\ io_error = FALSE
  /\ empty_commit = FALSE
  /\ release_hist = <<>>
  /\ srv = NoSrv
  /\ capacity_hist = NoCall
  /\ n_ops = 0
  /\ n_page_flushes = 0

Init ==
  /\ InitLog
  /\ new_redo = initialize_files(DataFileSize)

\* the server runs: start-up has called log_set_capacity(), nothing was fatal
Running == ~aborted /\ log_sys.log_capacity # 0

(***************************************************************************)
(* log_set_capacity(file_size), called once at start-up                    *)
(***************************************************************************)
\* variant: the thresholds are set also when the file is too small
log_set_capacity_unchecked(ls, file_size) ==
  LET smallest_capacity == file_size - file_size \div 10
      free == LOG_CHECKPOINT_FREE_PER_THREAD * (10 + srv_thread_concurrency)
              + LOG_CHECKPOINT_EXTRA_FREE
      margin0 == smallest_capacity - free
      margin == margin0 - margin0 \div 10
  IN [ls EXCEPT
        !.log_capacity = smallest_capacity,
        !.max_modified_age_async =
            margin - margin \div LOG_POOL_PREFLUSH_RATIO_ASYNC,
        !.max_modified_age_sync =
            margin - margin \div LOG_POOL_PREFLUSH_RATIO_SYNC,
        !.max_checkpoint_age_async =
            margin - margin \div LOG_POOL_CHECKPOINT_RATIO_ASYNC,
        !.max_checkpoint_age = margin]

log_set_capacity(ls, file_size) ==
  LET smallest_capacity == file_size - file_size \div 10
      free == LOG_CHECKPOINT_FREE_PER_THREAD * (10 + srv_thread_concurrency)
              + LOG_CHECKPOINT_EXTRA_FREE
      margin0 == smallest_capacity - free
      margin == margin0 - margin0 \div 10
  IN IF free >= smallest_capacity \div 2
     THEN ls
     ELSE [ls EXCEPT
             !.log_capacity = smallest_capacity,
             !.max_modified_age_async =
                 margin - margin \div LOG_POOL_PREFLUSH_RATIO_ASYNC,
             !.max_modified_age_sync =
                 margin - margin \div LOG_POOL_PREFLUSH_RATIO_SYNC,
             !.max_checkpoint_age_async =
                 margin - margin \div LOG_POOL_CHECKPOINT_RATIO_ASYNC,
             !.max_checkpoint_age = margin]

LogSetCapacity ==
  /\ ~aborted
  /\ log_sys.log_capacity = 0
  /\ log_mutex = NoThread
  /\ log_sys' = log_set_capacity(log_sys, LogFileSize)
  /\ UNCHANGED <<srv_log_buffer_size, locks, new_redo, buf_pool, pc, mtr,
                 loc, aborted, hists, srv, counts>>

(***************************************************************************)
(* Buffer pool interface used by the log                                   *)
(***************************************************************************)
\* oldest_modification of the first page of the flush list, 0 if it is empty;
\* the caller waits until no insertion into the flush list is under way
buf_pool_get_oldest_modification(bp) ==
  LET S == {bp[p].oldest_modification : p \in Pages} \ {0}
  IN IF S = {} THEN 0 ELSE Min(S)

\* mutant: the flush list is not looked at
log_buf_pool_get_oldest_modification_lsn(ls, bp) == ls.lsn

\* log_sys.lsn if the flush list is empty
log_buf_pool_get_oldest_modification(ls, bp) ==
  LET lsn == buf_pool_get_oldest_modification(bp)
  IN IF lsn = 0 THEN ls.lsn ELSE lsn

\* stamps the page and, if it was clean, inserts it into the flush list
buf_flush_note_modification(bp, p, start_lsn, end_lsn) ==
  [bp EXCEPT ![p].newest_modification = end_lsn,
             ![p].oldest_modification = IF @ = 0 THEN start_lsn ELSE @]

(***************************************************************************)
(* Memo of a mini-transaction: slots [object, type], walked in reverse     *)
(***************************************************************************)
IsDirtyingFix(slot) ==
  /\ slot.object # NoPage
  /\ slot.type \in {MTR_MEMO_PAGE_X_FIX, MTR_MEMO_PAGE_SX_FIX}

\* variant: no page is noted as modified
ReleaseBlocks_nothing(memo, bp, i, start_lsn, end_lsn) == bp

\* ReleaseBlocks: slots i, i-1, ..., 1
RECURSIVE ReleaseBlocks(_, _, _, _, _)
ReleaseBlocks(memo, bp, i, start_lsn, end_lsn) ==
  IF i = 0 THEN bp
  ELSE ReleaseBlocks(memo,
                     IF IsDirtyingFix(memo[i])
                     THEN buf_flush_note_modification(bp, memo[i].object,
                                                      start_lsn, end_lsn)
                     ELSE bp,
                     i - 1, start_lsn, end_lsn)

\* the flush-list insertions ReleaseBlocks makes, in the order it makes them
RECURSIVE FlushListInsertions(_, _, _, _, _, _)
FlushListInsertions(memo, bp, i, id, start_lsn, end_lsn) ==
  IF i = 0 THEN <<>>
  ELSE IF IsDirtyingFix(memo[i]) /\ bp[memo[i].object].oldest_modification = 0
  THEN <<[id |-> id, page |-> memo[i].object,
          start_lsn |-> start_lsn, end_lsn |-> end_lsn]>>
       \o FlushListInsertions(memo,
                              buf_flush_note_modification(bp, memo[i].object,
                                                          start_lsn, end_lsn),
                              i - 1, id, start_lsn, end_lsn)
  ELSE FlushListInsertions(memo, bp, i - 1, id, start_lsn, end_lsn)

\* block->unfix() and buf_page_release_latch(), or the rw-lock unlock
memo_slot_release(bp, slot, t) ==
  IF slot.type \in {MTR_MEMO_PAGE_X_FIX, MTR_MEMO_PAGE_SX_FIX}
  THEN [bp EXCEPT ![slot.object].x_latch = NoThread]
  ELSE IF slot.type = MTR_MEMO_PAGE_S_FIX
  THEN [bp EXCEPT ![slot.object].s_latch = @ \ {t}]
  ELSE bp

\* ReleaseLatches: slots i, i-1, ..., 1; the released slots get object NULL
RECURSIVE ReleaseLatches(_, _, _, _)
ReleaseLatches(memo, bp, i, t) ==
  IF i = 0 THEN [memo |-> memo, bp |-> bp]
  ELSE IF memo[i].object = NoPage
  THEN ReleaseLatches(memo, bp, i - 1, t)
  ELSE ReleaseLatches([memo EXCEPT ![i].object = NoPage],
                      memo_slot_release(bp, memo[i], t), i - 1, t)

\* ReleaseAll: the same walk, through memo_slot_release()
RECURSIVE ReleaseAll(_, _, _, _)
ReleaseAll(memo, bp, i, t) ==
  IF i = 0 THEN [memo |-> memo, bp |-> bp]
  ELSE IF memo[i].object # NoPage
  THEN ReleaseAll([memo EXCEPT ![i].object = NoPage],
                  memo_slot_release(bp, memo[i], t), i - 1, t)
  ELSE ReleaseAll(memo, bp, i - 1, t)

(***************************************************************************)
(* mtr_t::start() and the latching of one page through the memo            *)
(***************************************************************************)
\* "redo" and "noredo" modify a page they X-fix, in MTR_LOG_ALL and
\* MTR_LOG_NO_REDO mode; "none" X-fixes a page in MTR_LOG_NONE mode and "read"
\* S-fixes one, both without a modification
MtrKinds == {"redo", "noredo", "none", "read"}

\* lens: the sizes of the record buffer a redo-logging MTR may have
mtr_start(t, lens) ==
  /\ Running
  /\ pc[t] = "idle"
  /\ n_ops < MaxOps
  /\ \E kind \in MtrKinds, p \in Pages \cup {NoPage}, n \in lens :
       LET modifies == kind \in {"redo", "noredo"}
           x_fix == kind \in {"redo", "noredo", "none"}
       IN
       /\ kind # "redo" => (p # NoPage /\ n = Min(lens))
       /\ p # NoPage =>
            /\ buf_pool[p].x_latch = NoThread
            /\ x_fix => buf_pool[p].s_latch = {}
       /\ mtr' = [mtr EXCEPT ![t] =
            [active |-> TRUE,
             m_log_mode |-> IF kind = "noredo" THEN MTR_LOG_NO_REDO
                            ELSE IF kind = "none" THEN MTR_LOG_NONE
                            ELSE MTR_LOG_ALL,
             m_log_size |-> IF kind = "redo" THEN n ELSE 0,
             m_modifications |-> modifies,
             m_made_dirty |-> /\ x_fix
                              /\ p # NoPage
                              /\ buf_pool[p].oldest_modification = 0,
             m_memo |-> IF p = NoPage THEN <<>>
                        ELSE IF modifies
                        THEN <<[object |-> p, type |-> MTR_MEMO_PAGE_X_FIX],
                               [object |-> p, type |-> MTR_MEMO_MODIFY]>>
                        ELSE IF x_fix
                        THEN <<[object |-> p, type |-> MTR_MEMO_PAGE_X_FIX]>>
                        ELSE <<[object |-> p, type |-> MTR_MEMO_PAGE_S_FIX]>>,
             m_commit_lsn |-> 0]]
       /\ buf_pool' = IF p = NoPage THEN buf_pool
                      ELSE IF x_fix
                      THEN [buf_pool EXCEPT ![p].x_latch = t]
                      ELSE [buf_pool EXCEPT ![p].s_latch = @ \cup {t}]
  /\ pc' = [pc EXCEPT ![t] = "mtr_active"]
  /\ n_ops' = n_ops + 1
  /\ UNCHANGED <<log_sys, srv_log_buffer_size, locks, new_redo, loc, aborted,
                 hists, srv, n_page_flushes>>

MtrStart(t) == mtr_start(t, MtrLens)

(***************************************************************************)
(* mtr_t::commit(): entry, and the whole commit of an MTR that logs nothing *)
(***************************************************************************)
\* mutant: every commit goes through prepare_write()
mtr_commit_writes_always(m) == TRUE

\* m_modifications && (m_log_mode == MTR_LOG_NO_REDO || !m_log.empty())
mtr_commit_writes(m) ==
  m.m_modifications /\ (m.m_log_mode = MTR_LOG_NO_REDO \/ m.m_log_size # 0)

MtrCommit(t) ==
  /\ Running
  /\ pc[t] = "mtr_active"
  /\ LET m == mtr[t] IN
     IF mtr_commit_writes(m)
     THEN \* prepare_write() up to its log_mutex_enter()
          /\ IF m.m_log_mode # MTR_LOG_ALL
             THEN /\ pc' = [pc EXCEPT ![t] = "pw_no_redo"]
                  /\ UNCHANGED <<mtr, loc>>
             ELSE LET len == m.m_log_size + 1 IN
                  /\ mtr' = [mtr EXCEPT ![t].m_log_size = len]
                  /\ loc' = [loc EXCEPT ![t].len = len]
                  /\ pc' = [pc EXCEPT ![t] =
                              IF len > srv_log_buffer_size \div 2
                              THEN "buffer_extend" ELSE "pw_mutex"]
          /\ UNCHANGED <<buf_pool, empty_commit>>
     ELSE \* ReleaseAll over the memo, then release_resources()
          LET r == ReleaseAll(m.m_memo, buf_pool, Len(m.m_memo), t) IN
          /\ buf_pool' = r.bp
          /\ mtr' = [mtr EXCEPT ![t] = NoMtr]
          /\ pc' = [pc EXCEPT ![t] = "idle"]
          /\ empty_commit' = TRUE
          /\ UNCHANGED loc
  /\ UNCHANGED <<log_sys, srv_log_buffer_size, locks, new_redo, aborted,
                 mtr_hist, flush_hist, ckpt_hist, io_error, release_hist,
                 capacity_hist, srv,
                 counts>>

\* variant: start_lsn is not taken from m_commit_lsn
PrepareWriteNoRedo_NoStartLsn(t) ==
  /\ Running
  /\ pc[t] = "pw_no_redo"
  /\ log_mutex = NoThread
  /\ log_mutex' = t
  /\ mtr' = [mtr EXCEPT ![t].m_commit_lsn = log_sys.lsn]
  /\ loc' = [loc EXCEPT ![t].len = 0, ![t].start_lsn = 0]
  /\ pc' = [pc EXCEPT ![t] = "flush_order"]
  /\ UNCHANGED <<log_sys, srv_log_buffer_size, log_flush_order_mutex,
                 write_lock, flush_lock, new_redo, buf_pool, aborted, hists, srv,
                 counts>>

\* prepare_write() of an MTR_LOG_NO_REDO mini-transaction
PrepareWriteNoRedo(t) ==
  /\ Running
  /\ pc[t] = "pw_no_redo"
  /\ log_mutex = NoThread
  /\ log_mutex' = t
  /\ mtr' = [mtr EXCEPT ![t].m_commit_lsn = log_sys.lsn]
  /\ loc' = [loc EXCEPT ![t].len = 0, ![t].start_lsn = log_sys.lsn]
  /\ pc' = [pc EXCEPT ![t] = "flush_order"]
  /\ UNCHANGED <<log_sys, srv_log_buffer_size, log_flush_order_mutex,
                 write_lock, flush_lock, new_redo, buf_pool, aborted, hists, srv,
                 counts>>

(***************************************************************************)
(* log_buffer_extend(len), called by prepare_write() with (len + 1) * 2     *)
(***************************************************************************)
log_buffer_extend(ls, new_buf_size) ==
  [ls EXCEPT !.first_in_use = TRUE,
             !.max_buf_free = new_buf_size \div LOG_BUF_FLUSH_RATIO
                              - LOG_BUF_FLUSH_MARGIN]

\* variant: prepare_write() never extends the buffer
LogBufferExtend_never(t) ==
  /\ Running
  /\ pc[t] = "buffer_extend"
  /\ log_mutex = NoThread
  /\ pc' = [pc EXCEPT ![t] = "pw_mutex"]
  /\ UNCHANGED <<log_sys, srv_log_buffer_size, locks, new_redo, buf_pool, mtr,
                 loc, aborted, hists, srv, counts>>

LogBufferExtend(t) ==
  /\ Running
  /\ pc[t] = "buffer_extend"
  /\ log_mutex = NoThread
  /\ LET len == (loc[t].len + 1) * 2
         new_buf_size == ut_calc_align(len, srv_page_size)
     IN IF len <= srv_log_buffer_size
        THEN UNCHANGED <<log_sys, srv_log_buffer_size>>
        ELSE /\ srv_log_buffer_size' = new_buf_size
             /\ log_sys' = log_buffer_extend(log_sys, new_buf_size)
  /\ pc' = [pc EXCEPT ![t] = "pw_mutex"]
  /\ UNCHANGED <<locks, new_redo, buf_pool, mtr, loc, aborted, hists, srv, counts>>

(***************************************************************************)
(* prepare_write(): log_mutex_enter() and log_margin_checkpoint_age(len)    *)
(***************************************************************************)
\* variant: a margin above log_capacity is treated like any other
log_margin_checkpoint_age_no_limit(ls, margin) ==
  IF ls.lsn - ls.last_checkpoint_lsn + margin > ls.log_capacity
  THEN "checkpoint"
  ELSE "none"

\* variant: the margin is never checked
log_margin_checkpoint_age_never(ls, margin) == "none"

\* "none": return with the mutex held; "checkpoint": release it and checkpoint
log_margin_checkpoint_age(ls, margin) ==
  IF margin > ls.log_capacity THEN "none"
  ELSE IF ls.lsn - ls.last_checkpoint_lsn + margin > ls.log_capacity
  THEN "checkpoint"
  ELSE "none"

PrepareWriteEnter(t) ==
  /\ Running
  /\ pc[t] = "pw_mutex"
  /\ log_mutex = NoThread
  /\ IF log_margin_checkpoint_age(log_sys, loc[t].len) = "checkpoint"
     THEN /\ log_sys' = [log_sys EXCEPT !.check_flush_or_checkpoint = TRUE]
          /\ UNCHANGED log_mutex
          /\ loc' = [loc EXCEPT ![t].ck_ret = "margin_reenter"]
          /\ pc' = [pc EXCEPT ![t] = "ck_begin"]
     ELSE /\ log_mutex' = t
          /\ pc' = [pc EXCEPT ![t] = "finish_write"]
          /\ UNCHANGED <<log_sys, loc>>
  /\ UNCHANGED <<srv_log_buffer_size, log_flush_order_mutex, write_lock,
                 flush_lock, new_redo, buf_pool, mtr, aborted, hists, srv, counts>>

\* log_mutex_enter() after log_checkpoint() or log_buffer_sync_in_background()
LogMutexReenter(t) ==
  /\ Running
  /\ pc[t] \in {"margin_reenter", "reserve_reenter"}
  /\ log_mutex = NoThread
  /\ log_mutex' = t
  /\ pc' = [pc EXCEPT ![t] = IF pc[t] = "margin_reenter"
                             THEN "finish_write" ELSE "reserve_open"]
  /\ UNCHANGED <<log_sys, srv_log_buffer_size, log_flush_order_mutex,
                 write_lock, flush_lock, new_redo, buf_pool, mtr, loc,
                 aborted, hists, srv, counts>>

(***************************************************************************)
(* redo_t: the circular data file and the main file                        *)
(***************************************************************************)
\* variant: the sequence bit is also flipped when the buffer ends at EOF
append_wrapped_flips_at_eof(r, size) ==
  LET end == r.m_data_file_position + size
  IN [r EXCEPT !.m_sequence_bit = IF end >= r.m_data_file_size THEN 1 - @ ELSE @,
               !.m_data_file_position =
                   IF end >= r.m_data_file_size THEN end - r.m_data_file_size
                   ELSE end]

\* variant: the cursor is left at m_data_file_size after a buffer that ends
\* at EOF
append_wrapped_no_reset(r, size) ==
  LET end == r.m_data_file_position + size
  IN [r EXCEPT !.m_sequence_bit = IF end > r.m_data_file_size THEN 1 - @ ELSE @,
               !.m_data_file_position =
                   IF end > r.m_data_file_size THEN end - r.m_data_file_size
                   ELSE end]

\* append_wrapped(buf) of a buffer of size bytes, all writes succeeding
append_wrapped(r, size) ==
  LET split == r.m_data_file_position + size > r.m_data_file_size
      tail_length == r.m_data_file_size - r.m_data_file_position
      rest == IF split THEN size - tail_length ELSE size
      pos0 == IF split THEN 0 ELSE r.m_data_file_position
      pos1 == pos0 + rest
  IN [r EXCEPT !.m_sequence_bit = IF split THEN 1 - @ ELSE @,
               !.m_data_file_position =
                   IF pos1 = r.m_data_file_size THEN 0 ELSE pos1]

\* the writes append_wrapped(buf) issues to the data file: <<offset, length>>
append_wrapped_writes(r, size) ==
  LET tail_length == r.m_data_file_size - r.m_data_file_position
  IN IF r.m_data_file_position + size > r.m_data_file_size
     THEN <<<<r.m_data_file_position, tail_length>>,
            <<0, size - tail_length>>>>
     ELSE <<<<r.m_data_file_position, size>>>>

\* size of the buffer append_mtr_data() builds: header, payload, CRC-32C
mtr_data_size(payload_size) ==
  LET size == payload_size + 4
  IN mlog_varint_size(size * 4) + size

\* number of bytes appended to the data file so far
LogicalEnd(h) == IF h = <<>> THEN 0 ELSE h[Len(h)].lstart + h[Len(h)].size

\* history: the LSN interval of the record thread id appended last
SetLsns(h, id, start_lsn, commit_lsn) ==
  [i \in DOMAIN h |->
     IF h[i].id = id /\ h[i].commit_lsn = 0
     THEN [h[i] EXCEPT !.start_lsn = start_lsn, !.commit_lsn = commit_lsn]
     ELSE h[i]]

(***************************************************************************)
(* Appending to the log buffer                                             *)
(***************************************************************************)
\* payload_size(): the bytes of a log block between header and trailer
payload_size == OS_FILE_LOG_BLOCK_SIZE - LOG_BLOCK_HDR_SIZE - LOG_BLOCK_CHECKSUM

\* log_write_low(str, str_len): the part loop over log_sys.lsn and
\* log_sys.buf_free; the result is <<lsn, buf_free>>.  A pass that starts
\* right after a block header with at least payload_size() bytes to copy
\* fills the block: it copies payload_size() bytes, adds a whole block to
\* lsn and buf_free and ends right after the next header; a run of such
\* passes but the last is taken at once.
RECURSIVE log_write_low_part_loop(_, _, _)
log_write_low_part_loop(lsn, buf_free, str_len) ==
  LET in_block == buf_free % OS_FILE_LOG_BLOCK_SIZE
      whole == IF in_block = LOG_BLOCK_HDR_SIZE
               THEN str_len \div payload_size ELSE 0
      fits == in_block + str_len <= trailer_offset
      data_len == IF fits THEN in_block + str_len ELSE trailer_offset
      part == IF fits THEN str_len ELSE trailer_offset - in_block
      len == IF data_len = trailer_offset THEN part + framing_size ELSE part
  IN IF whole > 1
     THEN log_write_low_part_loop(
            lsn + (whole - 1) * OS_FILE_LOG_BLOCK_SIZE,
            buf_free + (whole - 1) * OS_FILE_LOG_BLOCK_SIZE,
            str_len - (whole - 1) * payload_size)
     ELSE IF str_len - part > 0
     THEN log_write_low_part_loop(lsn + len, buf_free + len, str_len - part)
     ELSE <<lsn + len, buf_free + len>>

\* mutant: log_sys.lsn = len instead of log_sys.lsn += len
log_write_low_assigns_lsn(ls, str_len) ==
  LET r == log_write_low_part_loop(ls.lsn, ls.buf_free, str_len)
  IN [ls EXCEPT !.lsn = r[1] - ls.lsn, !.buf_free = r[2]]

\* log_write_low(str, str_len); mtr_write_log_t calls it for each block of
\* the record buffer in turn, which adds up to one call with the whole length
\* variant: the string is copied without the header and trailer of the blocks
log_write_low_no_framing(ls, str_len) ==
  [ls EXCEPT !.lsn = @ + str_len, !.buf_free = @ + str_len]

log_write_low(ls, str_len) ==
  LET r == log_write_low_part_loop(ls.lsn, ls.buf_free, str_len)
  IN [ls EXCEPT !.lsn = r[1], !.buf_free = r[2]]

\* log_reserve_and_write_fast(): whether the string fits in the current block
fast_write_fits(ls, len) ==
  len + (ls.buf_free % OS_FILE_LOG_BLOCK_SIZE) < trailer_offset

log_reserve_and_write_fast(ls, len) ==
  [ls EXCEPT !.lsn = @ + len, !.buf_free = @ + len]

\* mtr_buf_t::is_small(): the records are in the first block of the buffer
is_small(len) == len <= MTR_BUF_BLOCK_SIZE

\* log_reserve_and_open(len): whether the buffer has room for the string
reserve_has_room(ls, len, buffer_size) ==
  LET len_upper_limit == LOG_BUF_WRITE_MARGIN + srv_log_write_ahead_size
                         + (5 * len) \div 4
  IN ~(ls.buf_free + len_upper_limit > buffer_size)

\* mutant: the lsn of the start of the current block
log_reserve_and_open_block_start(ls) ==
  ls.lsn - (ls.buf_free % OS_FILE_LOG_BLOCK_SIZE)

\* the start lsn log_reserve_and_open() returns
log_reserve_and_open(ls) == ls.lsn

\* log_close(): the value of check_flush_or_checkpoint it leaves
log_close(ls, bp) ==
  LET checkpoint_age == ls.lsn - ls.last_checkpoint_lsn
      oldest_lsn == buf_pool_get_oldest_modification(bp)
      f1 == ls.check_flush_or_checkpoint \/ ls.buf_free > ls.max_buf_free
      f2 == IF checkpoint_age <= ls.max_modified_age_sync THEN f1
            ELSE \/ f1
                 \/ oldest_lsn = 0
                 \/ ls.lsn - oldest_lsn > ls.max_modified_age_sync
                 \/ checkpoint_age > ls.max_checkpoint_age_async
  IN [ls EXCEPT !.check_flush_or_checkpoint = f2]

(***************************************************************************)
(* mtr_t::finish_write(len)                                                 *)
(***************************************************************************)
FinishWrite(t) ==
  /\ Running
  /\ pc[t] = "finish_write"
  /\ log_mutex = t
  /\ \E ok \in BOOLEAN :
       IF ~ok
       THEN \* ut_a(redo::new_redo.append_mtr_data(m_log) == DB_SUCCESS)
            /\ aborted' = TRUE
            /\ io_error' = TRUE
            /\ UNCHANGED <<log_sys, new_redo, mtr, loc, pc, mtr_hist>>
       ELSE LET len == loc[t].len
                size == mtr_data_size(len)
                h1 == Append(mtr_hist,
                             [id |-> t, lstart |-> LogicalEnd(mtr_hist),
                              size |-> size,
                              offset |-> new_redo.m_data_file_position,
                              seq |-> new_redo.m_sequence_bit,
                              writes |-> append_wrapped_writes(new_redo, size),
                              start_lsn |-> 0, commit_lsn |-> 0])
            IN
            /\ new_redo' = append_wrapped(new_redo, size)
            /\ IF is_small(len) /\ fast_write_fits(log_sys, len)
               THEN LET ls1 == log_reserve_and_write_fast(log_sys, len) IN
                    /\ log_sys' = ls1
                    /\ mtr' = [mtr EXCEPT ![t].m_commit_lsn = ls1.lsn]
                    /\ loc' = [loc EXCEPT ![t].start_lsn = log_sys.lsn]
                    /\ mtr_hist' = SetLsns(h1, t, log_sys.lsn, ls1.lsn)
                    /\ pc' = [pc EXCEPT ![t] = "flush_order"]
               ELSE /\ mtr_hist' = h1
                    /\ pc' = [pc EXCEPT ![t] = "reserve_open"]
                    /\ UNCHANGED <<log_sys, mtr, loc>>
            /\ UNCHANGED <<aborted, io_error>>
  /\ UNCHANGED <<srv_log_buffer_size, locks, buf_pool, flush_hist, ckpt_hist,
                 empty_commit,
                 release_hist, capacity_hist, srv, counts>>

\* finish_write(): log_reserve_and_open(len), the log_write_low() calls of
\* mtr_write_log_t over the blocks of m_log, and log_close()
ReserveAndWrite(t) ==
  /\ Running
  /\ pc[t] = "reserve_open"
  /\ log_mutex = t
  /\ LET room == reserve_has_room(log_sys, loc[t].len, srv_log_buffer_size)
         written == log_write_low(log_sys, loc[t].len)
     IN
     \* log_close() reads the flush list only past max_modified_age_sync
     /\ (/\ room
         /\ written.lsn - written.last_checkpoint_lsn
            > written.max_modified_age_sync)
        => log_flush_order_mutex = NoThread
     /\ IF room
        THEN LET start_lsn == log_reserve_and_open(log_sys)
                 ls1 == log_close(written, buf_pool)
             IN
             /\ log_sys' = ls1
             /\ mtr' = [mtr EXCEPT ![t].m_commit_lsn = ls1.lsn]
             /\ loc' = [loc EXCEPT ![t].start_lsn = start_lsn]
             /\ mtr_hist' = SetLsns(mtr_hist, t, start_lsn, ls1.lsn)
             /\ pc' = [pc EXCEPT ![t] = "flush_order"]
             /\ UNCHANGED log_mutex
        ELSE \* log_mutex_exit(); log_buffer_sync_in_background(false)
             /\ log_mutex' = NoThread
             /\ pc' = [pc EXCEPT ![t] = "sync_bg"]
             /\ UNCHANGED <<log_sys, mtr, loc, mtr_hist>>
  /\ UNCHANGED <<srv_log_buffer_size, log_flush_order_mutex, write_lock,
                 flush_lock, new_redo, buf_pool, aborted, flush_hist,
                 ckpt_hist, io_error, empty_commit,
                 release_hist, capacity_hist, srv, counts>>

\* log_buffer_sync_in_background(false) up to its call of log_write_up_to()
LogBufferSyncInBackground(t) ==
  /\ Running
  /\ pc[t] = "sync_bg"
  /\ log_mutex = NoThread
  /\ loc' = [loc EXCEPT ![t].wut_lsn = log_sys.lsn, ![t].wut_flush = FALSE,
                        ![t].wut_ret = "reserve_reenter"]
  /\ pc' = [pc EXCEPT ![t] = "wut_begin"]
  /\ UNCHANGED <<log_sys, srv_log_buffer_size, locks, new_redo, buf_pool, mtr,
                 aborted, hists, srv, counts>>

(***************************************************************************)
(* mtr_t::commit() after the write: flush order, flush list, latches       *)
(***************************************************************************)
\* mutant: log_mutex is released without log_flush_order_mutex held
MtrFlushOrderEnter_NoMutex(t) ==
  /\ Running
  /\ pc[t] = "flush_order"
  /\ log_mutex = t
  /\ pc' = [pc EXCEPT ![t] = "log_exit"]
  /\ UNCHANGED <<log_sys, srv_log_buffer_size, locks, new_redo, buf_pool, mtr,
                 loc, aborted, hists, srv, counts>>

\* if (m_made_dirty) log_flush_order_mutex_enter()
MtrFlushOrderEnter(t) ==
  /\ Running
  /\ pc[t] = "flush_order"
  /\ log_mutex = t
  /\ IF mtr[t].m_made_dirty
     THEN /\ log_flush_order_mutex = NoThread
          /\ log_flush_order_mutex' = t
     ELSE UNCHANGED log_flush_order_mutex
  /\ pc' = [pc EXCEPT ![t] = "log_exit"]
  /\ UNCHANGED <<log_sys, srv_log_buffer_size, log_mutex, write_lock,
                 flush_lock, new_redo, buf_pool, mtr, loc, aborted, hists, srv,
                 counts>>

\* log_mutex_exit()
\* variant: commit() goes on without log_mutex_exit()
MtrLogMutexExit_keeps(t) ==
  /\ Running
  /\ pc[t] = "log_exit"
  /\ log_mutex = t
  /\ pc' = [pc EXCEPT ![t] = "release_blocks"]
  /\ UNCHANGED <<log_sys, srv_log_buffer_size, locks, new_redo, buf_pool, mtr,
                 loc, aborted, hists, srv, counts>>

MtrLogMutexExit(t) ==
  /\ Running
  /\ pc[t] = "log_exit"
  /\ log_mutex = t
  /\ log_mutex' = NoThread
  /\ pc' = [pc EXCEPT ![t] = "release_blocks"]
  /\ UNCHANGED <<log_sys, srv_log_buffer_size, log_flush_order_mutex,
                 write_lock, flush_lock, new_redo, buf_pool, mtr, loc,
                 aborted, hists, srv, counts>>

\* mutant: log_flush_order_mutex_exit() is left out
MtrReleaseBlocks_KeepsMutex(t) ==
  /\ Running
  /\ pc[t] = "release_blocks"
  /\ LET m == mtr[t] IN
     /\ buf_pool' = ReleaseBlocks(m.m_memo, buf_pool, Len(m.m_memo),
                                  loc[t].start_lsn, m.m_commit_lsn)
     /\ flush_hist' = flush_hist \o
          FlushListInsertions(m.m_memo, buf_pool, Len(m.m_memo), t,
                              loc[t].start_lsn, m.m_commit_lsn)
  /\ pc' = [pc EXCEPT ![t] = "release_latches"]
  /\ UNCHANGED <<log_sys, srv_log_buffer_size, locks, new_redo, mtr, loc,
                 aborted, mtr_hist, ckpt_hist, io_error, empty_commit,
                 release_hist, capacity_hist, srv, counts>>

\* ReleaseBlocks(start_lsn, m_commit_lsn) over the memo, then
\* if (m_made_dirty) log_flush_order_mutex_exit()
MtrReleaseBlocks(t) ==
  /\ Running
  /\ pc[t] = "release_blocks"
  /\ LET m == mtr[t] IN
     /\ buf_pool' = ReleaseBlocks(m.m_memo, buf_pool, Len(m.m_memo),
                                  loc[t].start_lsn, m.m_commit_lsn)
     /\ flush_hist' = flush_hist \o
          FlushListInsertions(m.m_memo, buf_pool, Len(m.m_memo), t,
                              loc[t].start_lsn, m.m_commit_lsn)
     /\ IF m.m_made_dirty
        THEN log_flush_order_mutex' = NoThread
        ELSE UNCHANGED log_flush_order_mutex
  /\ pc' = [pc EXCEPT ![t] = "release_latches"]
  /\ UNCHANGED <<log_sys, srv_log_buffer_size, log_mutex, write_lock,
                 flush_lock, new_redo, mtr, loc, aborted, mtr_hist, ckpt_hist,
                 io_error, empty_commit,
                 release_hist, capacity_hist, srv, counts>>

\* ReleaseLatches over the memo, then release_resources()
MtrReleaseLatches(t) ==
  /\ Running
  /\ pc[t] = "release_latches"
  /\ LET r == ReleaseLatches(mtr[t].m_memo, buf_pool, Len(mtr[t].m_memo), t)
     IN buf_pool' = r.bp
  /\ mtr' = [mtr EXCEPT ![t] = NoMtr]
  /\ loc' = [loc EXCEPT ![t] = NoLoc]
  /\ pc' = [pc EXCEPT ![t] = "idle"]
  /\ UNCHANGED <<log_sys, srv_log_buffer_size, locks, new_redo, aborted,
                 hists, srv, counts>>

(***************************************************************************)
(* group_commit_lock: acquire(lsn), set_pending(lsn), release(lsn), value() *)
(***************************************************************************)
\* variant: acquire(lsn) never blocks
gcl_may_proceed_always(lock, lsn) == TRUE

\* acquire(lsn) returns at once when covered, takes a free lock, else blocks
gcl_may_proceed(lock, lsn) == lock.value >= lsn \/ lock.owner = NoThread

\* variant: a request is never taken as covered
gcl_covered_never(lock, lsn) == FALSE

gcl_covered(lock, lsn) == lock.value >= lsn

gcl_acquire(lock, lsn, t) ==
  IF gcl_covered(lock, lsn) THEN lock ELSE [lock EXCEPT !.owner = t]

gcl_set_pending(lock, lsn) == [lock EXCEPT !.pending = lsn]

gcl_release(lock, lsn) == [lock EXCEPT !.value = lsn, !.owner = NoThread]

(***************************************************************************)
(* log_write_up_to(lsn, flush_to_disk)                                      *)
(***************************************************************************)
\* if (flush_to_disk && flush_lock.acquire(lsn) != ACQUIRED) return;
LogWriteUpToBegin(t) ==
  /\ Running
  /\ pc[t] = "wut_begin"
  /\ IF loc[t].wut_flush
     THEN /\ gcl_may_proceed(flush_lock, loc[t].wut_lsn)
          /\ flush_lock' = gcl_acquire(flush_lock, loc[t].wut_lsn, t)
          /\ IF gcl_covered(flush_lock, loc[t].wut_lsn)
             THEN /\ pc' = [pc EXCEPT ![t] = "wut_done"]
                  /\ loc' = [loc EXCEPT ![t].wut_how = "covered"]
             ELSE /\ pc' = [pc EXCEPT ![t] = "wut_write_acq"]
                  /\ loc' = [loc EXCEPT ![t].wut_how = "owner"]
     ELSE /\ pc' = [pc EXCEPT ![t] = "wut_write_acq"]
          /\ loc' = [loc EXCEPT ![t].wut_how = "writer"]
          /\ UNCHANGED flush_lock
  /\ UNCHANGED <<log_sys, srv_log_buffer_size, log_mutex,
                 log_flush_order_mutex, write_lock, new_redo, buf_pool, mtr,
                 aborted, hists, srv, counts>>

\* if (write_lock.acquire(lsn) == ACQUIRED)
LogWriteAcquire(t) ==
  /\ Running
  /\ pc[t] = "wut_write_acq"
  /\ gcl_may_proceed(write_lock, loc[t].wut_lsn)
  /\ write_lock' = gcl_acquire(write_lock, loc[t].wut_lsn, t)
  /\ pc' = [pc EXCEPT ![t] = IF gcl_covered(write_lock, loc[t].wut_lsn)
                             THEN "wut_after_write" ELSE "wut_log_write"]
  /\ UNCHANGED <<log_sys, srv_log_buffer_size, log_mutex,
                 log_flush_order_mutex, flush_lock, new_redo, buf_pool, mtr,
                 loc, aborted, hists, srv, counts>>

\* log_buffer_switch()
log_buffer_switch(ls) ==
  [ls EXCEPT !.first_in_use = ~@,
             !.buf_free = @ % OS_FILE_LOG_BLOCK_SIZE,
             !.buf_next_to_write = ls.buf_free % OS_FILE_LOG_BLOCK_SIZE]

\* log_mutex_enter(); write_lock.set_pending(log_sys.lsn); log_write() up to
\* its log_mutex_exit(); when there is nothing to write also
\* ut_a(log_sys.write_lsn == write_lsn) and write_lock.release(write_lsn).
\* write_buf, the buffer the write will read, is identified by the size of
\* its allocation, which every log_buffer_extend() increases.
LogWrite(t) ==
  /\ Running
  /\ pc[t] = "wut_log_write"
  /\ log_mutex = NoThread
  /\ LET write_lsn == log_sys.lsn IN
     IF log_sys.buf_free = log_sys.buf_next_to_write
     THEN /\ loc' = [loc EXCEPT ![t].wut_write_lsn = write_lsn]
          /\ IF log_sys.write_lsn = write_lsn
             THEN /\ write_lock' = gcl_release(write_lock, write_lsn)
                  /\ pc' = [pc EXCEPT ![t] = "wut_after_write"]
                  /\ UNCHANGED aborted
             ELSE /\ aborted' = TRUE
                  /\ write_lock' = gcl_set_pending(write_lock, write_lsn)
                  /\ UNCHANGED pc
          /\ UNCHANGED log_sys
     ELSE /\ loc' = [loc EXCEPT ![t].wut_write_lsn = write_lsn,
                                ![t].wut_buf_size = srv_log_buffer_size]
          /\ log_sys' = log_buffer_switch(log_sys)
          /\ write_lock' = gcl_set_pending(write_lock, write_lsn)
          /\ pc' = [pc EXCEPT ![t] = "wut_write_buf"]
          /\ UNCHANGED aborted
  /\ UNCHANGED <<srv_log_buffer_size, log_mutex, log_flush_order_mutex,
                 flush_lock, new_redo, buf_pool, mtr, hists, srv, counts>>

\* the buffer log_write() reads after its log_mutex_exit() has been freed by
\* log_buffer_extend()
write_buf_freed(l, buffer_size) == l.wut_buf_size # buffer_size

\* log_write() after log_mutex_exit(): log_write_buf(), the assignments of
\* write_lsn and flushed_to_disk_lsn; then write_lock.release(write_lsn).
\* Reading a freed write_buf either goes unnoticed or ends the process.
LogWriteBuf(t) ==
  /\ Running
  /\ pc[t] = "wut_write_buf"
  /\ \E ok \in BOOLEAN, fault \in BOOLEAN :
       /\ fault => (ok /\ write_buf_freed(loc[t], srv_log_buffer_size))
       /\ IF ~ok
          THEN \* log_t::file::data_write(): ib::fatal()
               /\ aborted' = TRUE
               /\ io_error' = TRUE
               /\ UNCHANGED <<log_sys, write_lock, pc>>
          ELSE IF fault
          THEN /\ aborted' = TRUE
               /\ UNCHANGED <<log_sys, write_lock, pc, io_error>>
          ELSE /\ log_sys' = [log_sys EXCEPT
                    !.write_lsn = loc[t].wut_write_lsn,
                    !.flushed_to_disk_lsn =
                        IF DurableWrites THEN loc[t].wut_write_lsn ELSE @]
               /\ write_lock' = gcl_release(write_lock, loc[t].wut_write_lsn)
               /\ pc' = [pc EXCEPT ![t] = "wut_after_write"]
               /\ UNCHANGED <<aborted, io_error>>
  /\ UNCHANGED <<srv_log_buffer_size, log_mutex, log_flush_order_mutex,
                 flush_lock, new_redo, buf_pool, mtr, loc, mtr_hist,
                 flush_hist, ckpt_hist, empty_commit,
                 release_hist, capacity_hist, srv, counts>>

\* if (!flush_to_disk) return; flush_lsn= write_lock.value();
\* flush_lock.set_pending(flush_lsn)
LogWriteUpToFlush(t) ==
  /\ Running
  /\ pc[t] = "wut_after_write"
  /\ IF ~loc[t].wut_flush
     THEN /\ pc' = [pc EXCEPT ![t] = "wut_done"]
          /\ UNCHANGED <<flush_lock, loc>>
     ELSE LET flush_lsn == write_lock.value IN
          /\ loc' = [loc EXCEPT ![t].wut_flush_lsn = flush_lsn]
          /\ IF DurableWrites
             THEN /\ flush_lock' = gcl_release(flush_lock, flush_lsn)
                  /\ pc' = [pc EXCEPT ![t] = "wut_done"]
             ELSE /\ flush_lock' = gcl_set_pending(flush_lock, flush_lsn)
                  /\ pc' = [pc EXCEPT ![t] = "wut_flush_low"]
  /\ UNCHANGED <<log_sys, srv_log_buffer_size, log_mutex,
                 log_flush_order_mutex, write_lock, new_redo, buf_pool, mtr,
                 aborted, hists, srv, counts>>

\* mutant: the flushed lsn is not published
log_write_flush_to_disk_low_keeps(ls, lsn) == ls

\* variant: flushed_to_disk_lsn is set to the current lsn
log_write_flush_to_disk_low_current(ls, lsn) ==
  [ls EXCEPT !.flushed_to_disk_lsn = ls.lsn]

\* log_write_flush_to_disk_low(lsn) after the flush of the file
log_write_flush_to_disk_low(ls, lsn) ==
  [ls EXCEPT !.flushed_to_disk_lsn = lsn]

\* log_write_flush_to_disk_low(flush_lsn); redo::new_redo.flush_data();
\* flush_lock.release(flush_lsn)
LogWriteFlushToDiskLow(t) ==
  /\ Running
  /\ pc[t] = "wut_flush_low"
  /\ log_mutex = NoThread
  /\ \E ok \in BOOLEAN, ok2 \in BOOLEAN :
       IF ~ok
       THEN \* log_t::file::data_flush_data_only(): ib::fatal()
            /\ ok2
            /\ aborted' = TRUE
            /\ io_error' = TRUE
            /\ UNCHANGED <<log_sys, flush_lock, pc>>
       ELSE IF ~(loc[t].wut_flush_lsn >= log_sys.flushed_to_disk_lsn)
       THEN \* ut_a(lsn >= log_sys.flushed_to_disk_lsn)
            /\ ok2
            /\ aborted' = TRUE
            /\ UNCHANGED <<log_sys, flush_lock, pc, io_error>>
       ELSE /\ log_sys' = log_write_flush_to_disk_low(log_sys,
                                                      loc[t].wut_flush_lsn)
            \* the result of flush_data() is not looked at
            /\ io_error' = (io_error \/ ~ok2)
            /\ flush_lock' = gcl_release(flush_lock, loc[t].wut_flush_lsn)
            /\ pc' = [pc EXCEPT ![t] = "wut_done"]
            /\ UNCHANGED aborted
  /\ UNCHANGED <<srv_log_buffer_size, log_mutex, log_flush_order_mutex,
                 write_lock, new_redo, buf_pool, mtr, loc, mtr_hist,
                 flush_hist, ckpt_hist, empty_commit,
                 release_hist, capacity_hist, srv, counts>>

\* the locals of a finished call are dead
ClearWut(l) ==
  [l EXCEPT !.wut_lsn = 0, !.wut_flush = FALSE, !.wut_write_lsn = 0,
            !.wut_buf_size = 0, !.wut_flush_lsn = 0, !.wut_ret = "idle", !.wut_how = "none"]

ClearCk(l) ==
  [l EXCEPT !.ck_flush_lsn = 0, !.ck_success = FALSE, !.ck_ret = "idle",
            !.ck_dirty = {}, !.ck_wrote = FALSE, !.ck_pending = FALSE,
            !.ck_last = 0]

\* return of log_write_up_to()
LogWriteUpToReturn(t) ==
  /\ Running
  /\ pc[t] = "wut_done"
  /\ pc' = [pc EXCEPT ![t] = loc[t].wut_ret]
  /\ loc' = [loc EXCEPT ![t] = ClearWut(@)]
  /\ UNCHANGED <<log_sys, srv_log_buffer_size, locks, new_redo, buf_pool, mtr,
                 aborted, hists, srv, counts>>

(***************************************************************************)
(* log_checkpoint()                                                        *)
(***************************************************************************)
\* the lsn log_checkpoint() chooses under log_mutex
checkpoint_flush_lsn(ls, bp) == log_buf_pool_get_oldest_modification(ls, bp)

DirtyLsns(bp) == {bp[p].oldest_modification : p \in Pages} \ {0}

LogCheckpointBegin(t) ==
  /\ Running
  /\ pc[t] = "ck_begin"
  /\ log_mutex = NoThread
  /\ log_flush_order_mutex = NoThread
  /\ LET flush_lsn == checkpoint_flush_lsn(log_sys, buf_pool)
         l1 == [loc[t] EXCEPT !.ck_flush_lsn = flush_lsn,
                              !.ck_dirty = DirtyLsns(buf_pool),
                              !.ck_last = log_sys.last_checkpoint_lsn]
     IN IF flush_lsn = log_sys.last_checkpoint_lsn
        THEN \* nothing was logged since the previous checkpoint
             /\ loc' = [loc EXCEPT ![t] = [l1 EXCEPT !.ck_success = TRUE]]
             /\ pc' = [pc EXCEPT ![t] = "ck_done"]
        ELSE \* log_mutex_exit(); log_write_up_to(flush_lsn, true)
             /\ loc' = [loc EXCEPT ![t] =
                          [l1 EXCEPT !.wut_lsn = flush_lsn,
                                     !.wut_flush = TRUE,
                                     !.wut_ret = "ck_after_write"]]
             /\ pc' = [pc EXCEPT ![t] = "wut_begin"]
  /\ UNCHANGED <<log_sys, srv_log_buffer_size, locks, new_redo, buf_pool, mtr,
                 aborted, hists, srv, counts>>

\* mutant: a pending checkpoint write counts as success
log_checkpoint_success_or_pending(ls, flush_lsn) ==
  ls.last_checkpoint_lsn = flush_lsn \/ ls.n_pending_checkpoint_writes # 0

\* success= log_sys.last_checkpoint_lsn == flush_lsn
log_checkpoint_success(ls, flush_lsn) == ls.last_checkpoint_lsn = flush_lsn

\* mutant: the checkpoint is announced at the current lsn
log_checkpoint_announce_lsn(ls, flush_lsn) ==
  [ls EXCEPT !.next_checkpoint_lsn = ls.lsn,
             !.n_pending_checkpoint_writes = @ + 1]

\* log_sys.next_checkpoint_lsn= flush_lsn; ++log_sys.n_pending_checkpoint_writes
log_checkpoint_announce(ls, flush_lsn) ==
  [ls EXCEPT !.next_checkpoint_lsn = flush_lsn,
             !.n_pending_checkpoint_writes = @ + 1]

\* mutant: a pending checkpoint write does not stop the next one
LogCheckpointAfterWrite_IgnoresPending(t) ==
  /\ Running
  /\ pc[t] = "ck_after_write"
  /\ log_mutex = NoThread
  /\ LET success == log_checkpoint_success(log_sys, loc[t].ck_flush_lsn) IN
     IF success
     THEN /\ loc' = [loc EXCEPT ![t].ck_success = success]
          /\ pc' = [pc EXCEPT ![t] = "ck_done"]
          /\ UNCHANGED log_sys
     ELSE /\ log_sys' = log_checkpoint_announce(log_sys, loc[t].ck_flush_lsn)
          /\ pc' = [pc EXCEPT ![t] = "ck_append"]
          /\ UNCHANGED loc
  /\ UNCHANGED <<srv_log_buffer_size, locks, new_redo, buf_pool, mtr, aborted,
                 hists, srv, counts>>

\* log_mutex_enter() after log_write_up_to(), up to the next log_mutex_exit()
LogCheckpointAfterWrite(t) ==
  /\ Running
  /\ pc[t] = "ck_after_write"
  /\ log_mutex = NoThread
  /\ LET success == log_checkpoint_success(log_sys, loc[t].ck_flush_lsn) IN
     IF success \/ log_sys.n_pending_checkpoint_writes # 0
     THEN /\ loc' = [loc EXCEPT
                       ![t].ck_success = success,
                       ![t].ck_pending =
                           log_sys.n_pending_checkpoint_writes # 0]
          /\ pc' = [pc EXCEPT ![t] = "ck_done"]
          /\ UNCHANGED log_sys
     ELSE /\ log_sys' = log_checkpoint_announce(log_sys, loc[t].ck_flush_lsn)
          /\ pc' = [pc EXCEPT ![t] = "ck_append"]
          /\ UNCHANGED loc
  /\ UNCHANGED <<srv_log_buffer_size, locks, new_redo, buf_pool, mtr, aborted,
                 hists, srv, counts>>

\* redo_t::append_checkpoint_durable(lsn); ok is the result of the write and
\* flush of the main file
append_checkpoint_durable(r, ok) ==
  IF ok THEN [r EXCEPT !.m_main_file_size = @ + CHECKPOINT_SIZE] ELSE r

\* redo::new_redo.append_checkpoint_durable(flush_lsn): the result is dropped
LogCheckpointAppend(t) ==
  /\ Running
  /\ pc[t] = "ck_append"
  /\ \E ok \in BOOLEAN :
       /\ new_redo' = append_checkpoint_durable(new_redo, ok)
       /\ ckpt_hist' = Append(ckpt_hist,
                              [lsn |-> loc[t].ck_flush_lsn,
                               offset |-> new_redo.m_data_file_position,
                               seq |-> new_redo.m_sequence_bit,
                               tail |-> new_redo.m_main_file_size,
                               lpos |-> LogicalEnd(mtr_hist),
                               ok |-> ok])
       /\ io_error' = (io_error \/ ~ok)
       /\ loc' = [loc EXCEPT ![t].ck_wrote = ok]
  /\ pc' = [pc EXCEPT ![t] = "ck_finish"]
  /\ UNCHANGED <<log_sys, srv_log_buffer_size, locks, buf_pool, mtr, aborted,
                 mtr_hist, flush_hist, empty_commit,
                 release_hist, capacity_hist, srv, counts>>

\* log_mutex_enter(); --n_pending_checkpoint_writes;
\* last_checkpoint_lsn = next_checkpoint_lsn; log_mutex_exit(); return true
LogCheckpointFinish(t) ==
  /\ Running
  /\ pc[t] = "ck_finish"
  /\ log_mutex = NoThread
  /\ log_sys' = [log_sys EXCEPT
                   !.n_pending_checkpoint_writes = @ - 1,
                   !.last_checkpoint_lsn = log_sys.next_checkpoint_lsn]
  /\ loc' = [loc EXCEPT ![t].ck_success = TRUE]
  /\ pc' = [pc EXCEPT ![t] = "ck_done"]
  /\ UNCHANGED <<srv_log_buffer_size, locks, new_redo, buf_pool, mtr, aborted,
                 hists, srv, counts>>

\* return of log_checkpoint()
LogCheckpointReturn(t) ==
  /\ Running
  /\ pc[t] = "ck_done"
  /\ pc' = [pc EXCEPT ![t] = loc[t].ck_ret]
  /\ loc' = [loc EXCEPT ![t] = ClearCk(@)]
  /\ UNCHANGED <<log_sys, srv_log_buffer_size, locks, new_redo, buf_pool, mtr,
                 aborted, hists, srv, counts>>

(***************************************************************************)
(* Callers of the log, and the page cleaner                                *)
(***************************************************************************)
\* lsn arguments: the current lsn or the commit_lsn of a mini-transaction
LsnArgs ==
  {log_sys.lsn} \cup
  ({mtr_hist[i].commit_lsn : i \in DOMAIN mtr_hist} \ {0})

CallLogWriteUpTo(t) ==
  /\ Running
  /\ pc[t] = "idle"
  /\ n_ops < MaxOps
  /\ \E lsn \in LsnArgs, flush_to_disk \in BOOLEAN :
       loc' = [loc EXCEPT ![t].wut_lsn = lsn, ![t].wut_flush = flush_to_disk,
                          ![t].wut_ret = "idle"]
  /\ pc' = [pc EXCEPT ![t] = "wut_begin"]
  /\ n_ops' = n_ops + 1
  /\ UNCHANGED <<log_sys, srv_log_buffer_size, locks, new_redo, buf_pool, mtr,
                 aborted, hists, srv, n_page_flushes>>

CallLogCheckpoint(t) ==
  /\ Running
  /\ pc[t] = "idle"
  /\ n_ops < MaxOps
  /\ loc' = [loc EXCEPT ![t].ck_ret = "idle"]
  /\ pc' = [pc EXCEPT ![t] = "ck_begin"]
  /\ n_ops' = n_ops + 1
  /\ UNCHANGED <<log_sys, srv_log_buffer_size, locks, new_redo, buf_pool, mtr,
                 aborted, hists, srv, n_page_flushes>>

\* the page cleaner writes back a dirty page whose redo is durable and
\* removes it from the flush list
BufFlushPage(p) ==
  /\ Running
  /\ n_page_flushes < MaxPageFlushes
  /\ buf_pool[p].oldest_modification # 0
  /\ buf_pool[p].x_latch = NoThread
  /\ buf_pool[p].newest_modification <= log_sys.flushed_to_disk_lsn
  /\ buf_pool' = [buf_pool EXCEPT ![p].oldest_modification = 0]
  /\ n_page_flushes' = n_page_flushes + 1
  /\ UNCHANGED <<log_sys, srv_log_buffer_size, locks, new_redo, pc, mtr, loc,
                 aborted, hists, srv, n_ops>>

(***************************************************************************)
(* Specification                                                           *)
(***************************************************************************)
\* every step but the start of a mini-transaction
LogNext ==
  \/ LogSetCapacity
  \/ \E t \in Threads : MtrCommit(t)
  \/ \E t \in Threads : PrepareWriteNoRedo(t)
  \/ \E t \in Threads : LogBufferExtend(t)
  \/ \E t \in Threads : PrepareWriteEnter(t)
  \/ \E t \in Threads : LogMutexReenter(t)
  \/ \E t \in Threads : FinishWrite(t)
  \/ \E t \in Threads : ReserveAndWrite(t)
  \/ \E t \in Threads : LogBufferSyncInBackground(t)
  \/ \E t \in Threads : MtrFlushOrderEnter(t)
  \/ \E t \in Threads : MtrLogMutexExit(t)
  \/ \E t \in Threads : MtrReleaseBlocks(t)
  \/ \E t \in Threads : MtrReleaseLatches(t)
  \/ \E t \in Threads : LogWriteUpToBegin(t)
  \/ \E t \in Threads : LogWriteAcquire(t)
  \/ \E t \in Threads : LogWrite(t)
  \/ \E t \in Threads : LogWriteBuf(t)
  \/ \E t \in Threads : LogWriteUpToFlush(t)
  \/ \E t \in Threads : LogWriteFlushToDiskLow(t)
  \/ \E t \in Threads : LogWriteUpToReturn(t)
  \/ \E t \in Threads : LogCheckpointBegin(t)
  \/ \E t \in Threads : LogCheckpointAfterWrite(t)
  \/ \E t \in Threads : LogCheckpointAppend(t)
  \/ \E t \in Threads : LogCheckpointFinish(t)
  \/ \E t \in Threads : LogCheckpointReturn(t)
  \/ \E t \in Threads : CallLogWriteUpTo(t)
  \/ \E t \in Threads : CallLogCheckpoint(t)
  \/ \E p \in Pages : BufFlushPage(p)

Next ==
  \/ \E t \in Threads : MtrStart(t)
  \/ LogNext

Spec == Init /\ [][Next]_vars

(***************************************************************************)
(* The same program with a mini-transaction longer than log_capacity        *)
(***************************************************************************)
\* sizes of the record buffers: the larger one exceeds the log_capacity that
\* log_set_capacity(LogFileSize) computes and is shorter than the data file
OversizeLens == {500, 400000}

MtrStartOversize(t) == mtr_start(t, OversizeLens)

OversizeNext ==
  \/ \E t \in Threads : MtrStartOversize(t)
  \/ LogNext

OversizeSpec == Init /\ [][OversizeNext]_vars

(***************************************************************************)
(* Properties of the LSN allocation                                        *)
(***************************************************************************)
\* records of the history whose LSN interval has been assigned
Committed(h) == {i \in DOMAIN h : h[i].commit_lsn # 0}

RECURSIVE IntervalSum(_, _)
IntervalSum(h, i) ==
  IF i = 0 THEN 0
  ELSE IntervalSum(h, i - 1) + h[i].commit_lsn - h[i].start_lsn

Max2(a, b) == IF a >= b THEN a ELSE b

\* C1: log_sys.lsn never decreases; the step of finish_write() that gives an
\* MTR_LOG_ALL mini-transaction with a non-empty record buffer its commit_lsn
\* strictly increases log_sys.lsn to that commit_lsn; and no two records of
\* redo-logging mini-transactions carry the same commit_lsn.
C1_LsnAdvances ==
  [][/\ log_sys'.lsn >= log_sys.lsn
     /\ \A t \in Threads :
          (/\ pc[t] \in {"finish_write", "reserve_open"}
           /\ pc'[t] = "flush_order")
          => /\ log_sys'.lsn > log_sys.lsn
             /\ mtr'[t].m_commit_lsn = log_sys'.lsn
     /\ \A i, j \in Committed(mtr_hist') :
          i # j => mtr_hist'[i].commit_lsn # mtr_hist'[j].commit_lsn]_vars

\* two redo-logging mini-transactions have committed on the two write paths
C1_Witness ==
  /\ Cardinality(Committed(mtr_hist)) >= 2
  /\ \E i, j \in Committed(mtr_hist) :
       /\ mtr_hist[i].size < OS_FILE_LOG_BLOCK_SIZE
       /\ mtr_hist[j].size > OS_FILE_LOG_BLOCK_SIZE

\* C2: every committed redo-logging mini-transaction owns one non-empty
\* interval (start_lsn, commit_lsn]; the intervals of two mini-transactions
\* are disjoint and together they are exactly (1, log_sys.lsn], also when
\* log_reserve_and_open() gave up log_mutex and took it again.
C2_DisjointIntervals ==
  /\ \A i \in Committed(mtr_hist) :
       mtr_hist[i].start_lsn < mtr_hist[i].commit_lsn
  /\ \A i, j \in Committed(mtr_hist) :
       i # j => \/ mtr_hist[i].commit_lsn <= mtr_hist[j].start_lsn
                \/ mtr_hist[j].commit_lsn <= mtr_hist[i].start_lsn
  /\ IntervalSum(mtr_hist, Len(mtr_hist)) = log_sys.lsn - 1

\* a mini-transaction waited in log_reserve_and_open() while a later one
\* committed: its interval lies after that of a record appended after its own
C2_Witness ==
  \E i, j \in Committed(mtr_hist) :
    i < j /\ mtr_hist[j].commit_lsn <= mtr_hist[i].start_lsn

\* C3: when log_write_up_to(lsn, true) with lsn <= log_sys.lsn returns,
\* log_sys.flushed_to_disk_lsn >= lsn.
C3_FlushedOnReturn ==
  \A t \in Threads :
    (/\ pc[t] = "wut_done"
     /\ loc[t].wut_flush
     /\ loc[t].wut_lsn <= log_sys.lsn)
    => log_sys.flushed_to_disk_lsn >= loc[t].wut_lsn

\* a call returns because the flush of another thread covered its lsn
C3_Witness ==
  \E t \in Threads :
    /\ pc[t] = "wut_done"
    /\ loc[t].wut_flush
    /\ loc[t].wut_how = "covered"
    /\ loc[t].wut_lsn > 1

\* C4: the flush-list insertions of mini-transactions that made a page dirty
\* happen in the order in which they held log_mutex: the start_lsn stamps of
\* successive insertions never decrease.
C4_FlushListOrder ==
  \A i, j \in DOMAIN flush_hist :
    i < j => flush_hist[i].start_lsn <= flush_hist[j].start_lsn

\* two threads have inserted pages, the second with a larger stamp
C4_Witness ==
  \E i, j \in DOMAIN flush_hist :
    /\ i < j
    /\ flush_hist[i].id # flush_hist[j].id
    /\ flush_hist[i].start_lsn < flush_hist[j].start_lsn

\* C5: log_flush_order_mutex is acquired only by the holder of log_mutex; a
\* thread releases log_mutex before it releases log_flush_order_mutex; no
\* thread acquires log_mutex while it holds log_flush_order_mutex; and a
\* thread that is outside commit() holds neither.
C5_MutexOrder ==
  [][\A t \in Threads :
       /\ (log_flush_order_mutex # t /\ log_flush_order_mutex' = t)
          => (log_mutex = t /\ log_mutex' = t)
       /\ (log_flush_order_mutex = t /\ log_flush_order_mutex' # t)
          => log_mutex # t
       /\ (log_mutex # t /\ log_mutex' = t) => log_flush_order_mutex # t
       /\ pc'[t] = "idle"
          => (log_mutex' # t /\ log_flush_order_mutex' # t)]_vars

\* one thread is inserting into the flush list while the other holds log_mutex
C5_Witness ==
  \E t, u \in Threads :
    /\ t # u
    /\ log_flush_order_mutex = t
    /\ pc[t] = "release_blocks"
    /\ log_mutex = u

(***************************************************************************)
(* Properties of log_checkpoint()                                          *)
(***************************************************************************)
\* C6: the step that publishes last_checkpoint_lsn = L leaves
\* flushed_to_disk_lsn >= L, and L is at most the oldest_modification of every
\* page that was dirty when L was chosen; nothing else changes
\* last_checkpoint_lsn.
C6_CheckpointSafe ==
  [][/\ \A t \in Threads :
          (pc[t] = "ck_finish" /\ pc'[t] = "ck_done")
          => /\ log_sys'.last_checkpoint_lsn = loc[t].ck_flush_lsn
             /\ log_sys'.flushed_to_disk_lsn >= log_sys'.last_checkpoint_lsn
             /\ \A d \in loc[t].ck_dirty : log_sys'.last_checkpoint_lsn <= d
     /\ log_sys'.last_checkpoint_lsn # log_sys.last_checkpoint_lsn
        => \E t \in Threads : pc[t] = "ck_finish" /\ pc'[t] = "ck_done"]_vars

\* a checkpoint taken while a page was dirty has been published
C6_Witness ==
  \E t \in Threads :
    /\ pc[t] = "ck_done"
    /\ loc[t].ck_dirty # {}
    /\ loc[t].ck_last # loc[t].ck_flush_lsn
    /\ log_sys.last_checkpoint_lsn = loc[t].ck_flush_lsn
    /\ ckpt_hist # <<>>

\* C7: no record of a mini-transaction with commit_lsn > L lies before the
\* data-file position stored in the checkpoint record for L.
C7_CheckpointPosition ==
  \A c \in DOMAIN ckpt_hist :
    \A i \in Committed(mtr_hist) :
      mtr_hist[i].commit_lsn > ckpt_hist[c].lsn
      => mtr_hist[i].lstart >= ckpt_hist[c].lpos

\* C8: every failed write or flush of the log ends the process; in
\* particular last_checkpoint_lsn is not advanced after
\* append_checkpoint_durable() failed and flush_lock is not released with a
\* new value after flush_data() failed.
C8_FailedIoIsFatal == io_error => aborted

\* C9 as stated: log_checkpoint() returns true only when it wrote a
\* checkpoint record.
C9_TrueOnlyWhenWritten ==
  \A t \in Threads :
    (pc[t] = "ck_done" /\ loc[t].ck_success) => loc[t].ck_wrote

\* C9: log_checkpoint() returns true exactly when last_checkpoint_lsn equals
\* the flush_lsn it chose (nothing was logged since the previous checkpoint,
\* another thread published that lsn, or it handed the record to
\* append_checkpoint_durable() itself); it returns false only if after the
\* flush last_checkpoint_lsn differs from flush_lsn while the checkpoint
\* write of another thread is in progress.
C9_ReturnValue ==
  [][\A t \in Threads :
       (pc[t] # "ck_done" /\ pc'[t] = "ck_done")
       => /\ loc'[t].ck_success
             <=> log_sys'.last_checkpoint_lsn = loc'[t].ck_flush_lsn
          /\ ~loc'[t].ck_success
             => /\ pc[t] = "ck_after_write"
                /\ \E u \in Threads \ {t} :
                     pc[u] \in {"ck_append", "ck_finish"}
          /\ (loc'[t].ck_success /\ pc[t] # "ck_finish")
             => UNCHANGED <<log_sys, ckpt_hist>>]_vars

\* log_checkpoint() returns false next to the checkpoint write of the other
\* thread
C9_Witness ==
  \E t \in Threads :
    /\ pc[t] = "ck_done"
    /\ ~loc[t].ck_success
    /\ loc[t].ck_pending

\* C10 as stated: log_checkpoint() chooses
\* flush_lsn = max(oldest_dirty_lsn, log_sys.lsn).
C10_ChoosesMax ==
  [][\A t \in Threads :
       (pc[t] = "ck_begin" /\ pc'[t] # "ck_begin")
       => loc'[t].ck_flush_lsn =
            Max2(buf_pool_get_oldest_modification(buf_pool), log_sys.lsn)]_vars

\* C10: under log_mutex log_checkpoint() chooses flush_lsn = the oldest
\* oldest_modification of the flush list, or log_sys.lsn if the flush list
\* is empty; unless flush_lsn equals last_checkpoint_lsn, redo is flushed up
\* to flush_lsn before log_mutex is taken again; the record handed to
\* append_checkpoint_durable() carries flush_lsn; and the final step sets
\* last_checkpoint_lsn = flush_lsn.
C10_CheckpointSteps ==
  [][\A t \in Threads :
       /\ (pc[t] = "ck_begin" /\ pc'[t] # "ck_begin")
          => /\ loc'[t].ck_flush_lsn =
                  IF DirtyLsns(buf_pool) = {} THEN log_sys.lsn
                  ELSE Min(DirtyLsns(buf_pool))
             /\ log_mutex = NoThread
             /\ pc'[t] = "ck_done"
                <=> loc'[t].ck_flush_lsn = log_sys.last_checkpoint_lsn
       /\ pc'[t] = "ck_after_write"
          => log_sys'.flushed_to_disk_lsn >= loc'[t].ck_flush_lsn
       /\ (pc[t] = "ck_append" /\ pc'[t] = "ck_finish")
          => ckpt_hist'[Len(ckpt_hist')].lsn = loc[t].ck_flush_lsn
       /\ (pc[t] = "ck_finish" /\ pc'[t] = "ck_done")
          => log_sys'.last_checkpoint_lsn = loc[t].ck_flush_lsn]_vars

\* a checkpoint at the oldest_modification of a dirty page, below
\* log_sys.lsn, has been published
C10_Witness ==
  \E t \in Threads :
    /\ pc[t] = "ck_done"
    /\ loc[t].ck_flush_lsn \in loc[t].ck_dirty
    /\ \E i \in Committed(mtr_hist) :
         mtr_hist[i].commit_lsn > loc[t].ck_flush_lsn
    /\ loc[t].ck_wrote
    /\ log_sys.last_checkpoint_lsn = loc[t].ck_flush_lsn

\* threads between ++n_pending_checkpoint_writes and its decrement
CheckpointWriters == {t \in Threads : pc[t] \in {"ck_append", "ck_finish"}}

\* C11: n_pending_checkpoint_writes is 0 or 1 and counts the threads between
\* its increment and its decrement in log_checkpoint(), so at most one thread
\* is there; and while it is 1 no step changes next_checkpoint_lsn.
C11_OneCheckpointWriter ==
  [][/\ log_sys.n_pending_checkpoint_writes \in {0, 1}
     /\ log_sys'.n_pending_checkpoint_writes \in {0, 1}
     /\ Cardinality(CheckpointWriters) = log_sys.n_pending_checkpoint_writes
     /\ Cardinality(CheckpointWriters') = log_sys'.n_pending_checkpoint_writes
     /\ log_sys.n_pending_checkpoint_writes # 0
        => log_sys'.next_checkpoint_lsn = log_sys.next_checkpoint_lsn]_vars

\* while one thread writes its checkpoint record, the other thread has found
\* the write pending and left log_checkpoint() without announcing its own lsn
C11_Witness ==
  \E t, u \in Threads :
    /\ pc[t] \in {"ck_append", "ck_finish"}
    /\ pc[u] = "ck_done"
    /\ loc[u].ck_pending
    /\ ~loc[u].ck_success
    /\ log_sys.n_pending_checkpoint_writes = 1

(***************************************************************************)
(* redo_t on its own: appends and checkpoints on a small data file          *)
(***************************************************************************)
\* number of append_mtr_data() and of append_checkpoint_durable() calls
MaxAppends == 4
MaxCheckpoints == 2
\* size of the data file (a multiple of 512) and sizes of the record buffers
\* handed to append_mtr_data(): the buffers built are 256, 512 and 706 bytes
RedoDataFileSize == 2 * OS_FILE_LOG_BLOCK_SIZE
RedoPayloads == {250, 506, 700}

RedoInit ==
  /\ InitLog
  /\ new_redo = initialize_files(RedoDataFileSize)

\* redo_t::append_mtr_data(payload); a failed write is fatal in the caller
RedoAppendMtrData ==
  /\ ~aborted
  /\ Len(mtr_hist) < MaxAppends
  /\ \E len \in RedoPayloads, ok \in BOOLEAN :
       IF ~ok
       THEN /\ aborted' = TRUE
            /\ io_error' = TRUE
            /\ UNCHANGED <<new_redo, mtr_hist>>
       ELSE LET size == mtr_data_size(len) IN
            /\ new_redo' = append_wrapped(new_redo, size)
            /\ mtr_hist' = Append(mtr_hist,
                             [id |-> "t1", lstart |-> LogicalEnd(mtr_hist),
                              size |-> size,
                              offset |-> new_redo.m_data_file_position,
                              seq |-> new_redo.m_sequence_bit,
                              writes |-> append_wrapped_writes(new_redo, size),
                              start_lsn |-> 0, commit_lsn |-> 0])
            /\ UNCHANGED <<aborted, io_error>>
  /\ UNCHANGED <<log_sys, srv_log_buffer_size, locks, buf_pool, pc, mtr, loc,
                 flush_hist, ckpt_hist, empty_commit,
                 release_hist, capacity_hist, srv, counts>>

\* redo_t::append_checkpoint_durable(lsn)
RedoAppendCheckpointDurable ==
  /\ ~aborted
  /\ Len(ckpt_hist) < MaxCheckpoints
  /\ \E ok \in BOOLEAN :
       /\ new_redo' = append_checkpoint_durable(new_redo, ok)
       /\ ckpt_hist' = Append(ckpt_hist,
                              [lsn |-> log_sys.lsn,
                               offset |-> new_redo.m_data_file_position,
                               seq |-> new_redo.m_sequence_bit,
                               tail |-> new_redo.m_main_file_size,
                               lpos |-> LogicalEnd(mtr_hist),
                               ok |-> ok])
       /\ io_error' = (io_error \/ ~ok)
  /\ UNCHANGED <<log_sys, srv_log_buffer_size, locks, buf_pool, pc, mtr, loc,
                 aborted, mtr_hist, flush_hist, empty_commit,
                 release_hist, capacity_hist, srv, counts>>

RedoNext ==
  \/ RedoAppendMtrData
  \/ RedoAppendCheckpointDurable

RedoSpec == RedoInit /\ [][RedoNext]_vars

(***************************************************************************)
(* The sequential reader of the data file                                  *)
(***************************************************************************)
\* whether the byte ranges v and w of the data file have a byte in common
Overlap(v, w) == v[1] < w[1] + w[2] /\ w[1] < v[1] + v[2]

\* record i of the history is whole in the data file: no later write
\* touched one of its bytes
Intact(h, i) ==
  \A j \in (i + 1)..Len(h) :
    \A a \in DOMAIN h[i].writes, b \in DOMAIN h[j].writes :
      ~Overlap(h[i].writes[a], h[j].writes[b])

\* the record whose header and checksum the reader finds at offset pos,
\* 0 if the bytes there are zero or belong to an overwritten record
RecordAt(h, pos) ==
  LET found == {i \in DOMAIN h : h[i].offset = pos /\ Intact(h, i)}
  IN IF found = {} THEN 0 ELSE CHOOSE i \in found : TRUE

\* the records a reader accepts from offset pos with the expected sequence
\* bit: a record with another bit ends the log, the bit is toggled when the
\* record crossed the end of the file
RECURSIVE read_mtr_data(_, _, _, _, _)
read_mtr_data(h, file_size, pos, expected_sequence_bit, fuel) ==
  LET i == RecordAt(h, pos)
      end == pos + h[i].size
  IN IF fuel = 0 \/ i = 0 THEN <<>>
     ELSE IF h[i].seq # expected_sequence_bit THEN <<>>
     ELSE <<i>> \o read_mtr_data(h, file_size,
                     IF end >= file_size THEN end - file_size ELSE end,
                     IF end > file_size THEN 1 - expected_sequence_bit
                     ELSE expected_sequence_bit,
                     fuel - 1)

\* the checkpoint record recovery starts from: the last one written, the one
\* of initialize_files() if there is none
LatestCheckpoint(c) ==
  LET written == {i \in DOMAIN c : c[i].ok}
  IN IF written = {} THEN [offset |-> 0, seq |-> 1, lpos |-> 0]
     ELSE LET i == CHOOSE k \in written : \A l \in written : l <= k
          IN [offset |-> c[i].offset, seq |-> c[i].seq, lpos |-> c[i].lpos]

\* records appended since the latest checkpoint, in order
LiveRecords(h, c) ==
  LET live == {i \in DOMAIN h : h[i].lstart >= LatestCheckpoint(c).lpos}
  IN [k \in 1..Cardinality(live) |-> Len(h) - Cardinality(live) + k]

\* C12: while the records appended since the latest checkpoint take less than
\* the data file, a reader that starts at the position and sequence bit of
\* that checkpoint accepts exactly those records, in order, and a record
\* left at the writer's cursor carries another bit than the writer's
C12_ReaderAcceptsLiveRecords ==
  LET c == LatestCheckpoint(ckpt_hist)
      at_cursor == RecordAt(mtr_hist, new_redo.m_data_file_position)
  IN LogicalEnd(mtr_hist) - c.lpos < new_redo.m_data_file_size
     => /\ read_mtr_data(mtr_hist, new_redo.m_data_file_size, c.offset, c.seq,
                         Len(mtr_hist) + 1)
           = LiveRecords(mtr_hist, ckpt_hist)
        /\ at_cursor # 0
           => mtr_hist[at_cursor].seq # new_redo.m_sequence_bit

(***************************************************************************)
(* Properties of redo_t::append_wrapped                                    *)
(***************************************************************************)
\* the record appended by a step that appends to the data file
LastRecord(h) == h[Len(h)]

\* C13: a buffer that ends exactly at end-of-file is written in one piece,
\* resets the cursor to 0 and leaves the sequence bit; a buffer that crosses
\* end-of-file is written as the tail of the file and the rest at offset 0
\* and flips the sequence bit once; a buffer that stays inside the file is
\* written in one piece and flips nothing
C13_AppendAtEndOfFile ==
  [][Len(mtr_hist') = Len(mtr_hist) + 1 =>
       LET pos == new_redo.m_data_file_position
           file_size == new_redo.m_data_file_size
           size == LastRecord(mtr_hist').size
           writes == LastRecord(mtr_hist').writes
       IN /\ pos + size = file_size =>
               /\ writes = <<<<pos, size>>>>
               /\ new_redo'.m_data_file_position = 0
               /\ new_redo'.m_sequence_bit = new_redo.m_sequence_bit
          /\ pos + size > file_size =>
               /\ writes = <<<<pos, file_size - pos>>,
                             <<0, size - (file_size - pos)>>>>
               /\ new_redo'.m_data_file_position = size - (file_size - pos)
               /\ new_redo'.m_sequence_bit = 1 - new_redo.m_sequence_bit
          /\ pos + size < file_size =>
               /\ writes = <<<<pos, size>>>>
               /\ new_redo'.m_data_file_position = pos + size
               /\ new_redo'.m_sequence_bit = new_redo.m_sequence_bit
          /\ new_redo'.m_data_file_size = file_size
          /\ new_redo'.m_main_file_size = new_redo.m_main_file_size]_vars

\* the three cases have happened: a record that ended at end-of-file, one
\* that crossed it and one that stayed inside
C13_Witness ==
  /\ \E i \in DOMAIN mtr_hist :
       mtr_hist[i].offset + mtr_hist[i].size = new_redo.m_data_file_size
  /\ \E i \in DOMAIN mtr_hist :
       /\ mtr_hist[i].offset + mtr_hist[i].size > new_redo.m_data_file_size
       /\ Len(mtr_hist[i].writes) = 2
  /\ \E i \in DOMAIN mtr_hist :
       mtr_hist[i].offset + mtr_hist[i].size < new_redo.m_data_file_size

\* C14: at rest the cursor of the data file is inside the file
C14_CursorInsideFile ==
  /\ new_redo.m_data_file_position >= 0
  /\ new_redo.m_data_file_position < new_redo.m_data_file_size

\* the last append ended exactly at end-of-file and the cursor is back at 0,
\* every buffer appended was shorter than the file
C14_Witness ==
  /\ mtr_hist # <<>>
  /\ LastRecord(mtr_hist).offset + LastRecord(mtr_hist).size
       = new_redo.m_data_file_size
  /\ new_redo.m_data_file_position = 0
  /\ \A i \in DOMAIN mtr_hist : mtr_hist[i].size < new_redo.m_data_file_size

(***************************************************************************)
(* Properties of the two files of redo_t under the commit path             *)
(***************************************************************************)
\* C15: the bytes appended to the data file since the offset stored in the
\* latest checkpoint record never exceed the size of the data file (every
\* mini-transaction of MtrLens is shorter than the log_capacity that
\* log_set_capacity() computes)
C15_NoOverrun ==
  LogicalEnd(mtr_hist) - LatestCheckpoint(ckpt_hist).lpos
    <= new_redo.m_data_file_size

\* size of the main file: header and checkpoint blocks
LOG_MAIN_FILE_SIZE == 4 * OS_FILE_LOG_BLOCK_SIZE

\* C16: a checkpoint leaves the main file 4 blocks of 512 bytes long: its
\* record is written inside the file and the file is not extended
C16_MainFileFixed ==
  [][Len(ckpt_hist') = Len(ckpt_hist) + 1 =>
       /\ new_redo'.m_main_file_size = new_redo.m_main_file_size
       /\ new_redo'.m_main_file_size = LOG_MAIN_FILE_SIZE
       /\ ckpt_hist'[Len(ckpt_hist')].tail + CHECKPOINT_SIZE
            <= LOG_MAIN_FILE_SIZE]_vars

(***************************************************************************)
(* Properties of mtr_t::commit                                             *)
(***************************************************************************)
\* thread t commits its mini-transaction in this step
CommitsNow(t) == pc[t] = "mtr_active" /\ pc'[t] # "mtr_active"

\* C17: the commit of a mini-transaction without modifications, or in mode
\* MTR_LOG_NONE, is one step that leaves log_sys, the log buffer, the data
\* and main file, the four locks and the histories of I/O as they are, and
\* changes the buffer pool only by releasing the latches of the committer
C17_EmptyCommit ==
  [][\A t \in Threads :
       (/\ CommitsNow(t)
        /\ ~mtr[t].m_modifications \/ mtr[t].m_log_mode = MTR_LOG_NONE)
       => /\ log_sys' = log_sys
          /\ srv_log_buffer_size' = srv_log_buffer_size
          /\ new_redo' = new_redo
          /\ locks' = locks
          /\ <<mtr_hist, flush_hist, ckpt_hist, io_error>>'
               = <<mtr_hist, flush_hist, ckpt_hist, io_error>>
          /\ pc'[t] = "idle"
          /\ mtr'[t] = NoMtr
          /\ \A p \in Pages :
               /\ buf_pool'[p].x_latch
                    = IF buf_pool[p].x_latch = t THEN NoThread
                      ELSE buf_pool[p].x_latch
               /\ buf_pool'[p].s_latch = buf_pool[p].s_latch \ {t}
               /\ buf_pool'[p].oldest_modification
                    = buf_pool[p].oldest_modification
               /\ buf_pool'[p].newest_modification
                    = buf_pool[p].newest_modification]_vars

\* a mini-transaction committed without log after redo had been written, and
\* the log state is that of the last redo write
C17_Witness ==
  /\ empty_commit
  /\ Committed(mtr_hist) # {}
  /\ \E i \in Committed(mtr_hist) : mtr_hist[i].commit_lsn = log_sys.lsn
  /\ \A t \in Threads : pc[t] = "idle"
  /\ log_mutex = NoThread
  /\ write_lock.owner = NoThread

\* number of log blocks filled up to the trailer when len bytes are appended
\* to a buffer whose free offset is buf_free
BlocksFilled(buf_free, len) ==
  LET room == trailer_offset - (buf_free % OS_FILE_LOG_BLOCK_SIZE)
  IN IF len < room THEN 0 ELSE 1 + (len - room) \div payload_size

\* C18: the commit of an MTR_LOG_ALL mini-transaction with n bytes of records
\* appends n + 1 bytes; the step that assigns its LSNs starts at log_sys.lsn,
\* advances log_sys.lsn and log_sys.buf_free by the same amount, and
\* commit_lsn - start_lsn is n + 1 plus framing_size for every block filled
C18_CommitLength ==
  [][\A t \in Threads :
       /\ (/\ CommitsNow(t)
           /\ pc'[t] \in {"buffer_extend", "pw_mutex"})
          => /\ loc'[t].len = mtr[t].m_log_size + 1
             /\ mtr[t].m_log_mode = MTR_LOG_ALL
       /\ (/\ pc[t] \in {"finish_write", "reserve_open"}
           /\ pc'[t] = "flush_order")
          => /\ loc'[t].start_lsn = log_sys.lsn
             /\ loc'[t].len = loc[t].len
             /\ mtr'[t].m_commit_lsn - loc'[t].start_lsn
                  = loc[t].len
                    + framing_size * BlocksFilled(log_sys.buf_free, loc[t].len)
             /\ log_sys'.lsn = mtr'[t].m_commit_lsn
             /\ log_sys'.lsn - log_sys.lsn
                  = log_sys'.buf_free - log_sys.buf_free]_vars

\* three mini-transactions have their LSNs: the records of one stayed inside
\* a block, those of another filled one block and those of the third filled
\* more than two
C18_Witness ==
  \E i, j, k \in Committed(mtr_hist) :
    /\ mtr_hist[i].commit_lsn - mtr_hist[i].start_lsn = Min(MtrLens) + 1
    /\ mtr_hist[j].commit_lsn - mtr_hist[j].start_lsn
         = Min(MtrLens) + 1 + framing_size
    /\ mtr_hist[k].commit_lsn - mtr_hist[k].start_lsn
         > 2 * OS_FILE_LOG_BLOCK_SIZE

InGate(t) == loc[t].ck_ret = "margin_reenter" \/ pc[t] = "margin_reenter"

C21_OversizeMarginReturns ==
  [][\A t \in Threads :
       (/\ pc[t] = "pw_mutex"
        /\ pc'[t] # "pw_mutex"
        /\ loc[t].len > log_sys.log_capacity)
       => /\ pc'[t] = "finish_write"
          /\ log_mutex' = t
          /\ log_sys' = log_sys
          /\ loc' = loc
          /\ \A u \in Threads \ {t} : pc'[u] = pc[u]
          /\ <<mtr_hist, ckpt_hist, new_redo>>'
               = <<mtr_hist, ckpt_hist, new_redo>>]_vars

\* a mini-transaction longer than log_capacity holds log_mutex after the
\* margin check, while redo written earlier is not covered by a checkpoint
C21_Witness ==
  \E t \in Threads :
    /\ pc[t] = "finish_write"
    /\ log_mutex = t
    /\ loc[t].len > log_sys.log_capacity
    /\ log_sys.lsn > log_sys.last_checkpoint_lsn

\* C22: a mini-transaction whose record is longer than log_capacity does not
\* commit: it gets no LSN interval, and the age of the checkpoint stays
\* within log_capacity
C22_OversizeDoesNotCommit ==
  /\ \A i \in DOMAIN mtr_hist :
       mtr_hist[i].size > log_sys.log_capacity => mtr_hist[i].commit_lsn = 0
  /\ Running => log_sys.lsn - log_sys.last_checkpoint_lsn <= log_sys.log_capacity

(***************************************************************************)
(* Properties of the group commit in log_write_up_to                       *)
(***************************************************************************)
\* thread t writes the log buffer to the file in this step
WritesNow(t) == pc[t] = "wut_write_buf" /\ pc'[t] = "wut_after_write"

\* thread t flushes the file in this step
FlushesNow(t) == pc[t] = "wut_flush_low" /\ pc'[t] = "wut_done"

MTR_MEMO_BUF_FIX == "MTR_MEMO_BUF_FIX"

\* slots in one block of m_memo; slots one mini-transaction pushes;
\* mini-transactions started
MemoBlockSlots == 2
MaxMemoSlots == 4
MaxMemoMtrs == 1

MemoThread == "t1"
MemoTypes == {MTR_MEMO_PAGE_S_FIX, MTR_MEMO_PAGE_X_FIX, MTR_MEMO_BUF_FIX,
              MTR_MEMO_MODIFY}
\* the flags release_page() is called with
PageFlags == {{MTR_MEMO_PAGE_S_FIX}, {MTR_MEMO_PAGE_X_FIX}, {MTR_MEMO_BUF_FIX},
              {MTR_MEMO_PAGE_S_FIX, MTR_MEMO_PAGE_X_FIX, MTR_MEMO_BUF_FIX}}

\* block->begin() and block->end() of block b (1, 2, ...) of a memo of n
\* slots, as indexes of slots; end is one past the last slot
block_begin(b) == (b - 1) * MemoBlockSlots + 1
block_end(n, b) == IF b * MemoBlockSlots < n THEN b * MemoBlockSlots + 1
                   ELSE n + 1
memo_blocks(n) == (n + MemoBlockSlots - 1) \div MemoBlockSlots

\* variant: a block is walked from its first slot to its last
RECURSIVE CIterate_forward(_, _)
CIterate_forward(start, slot) ==
  IF slot = start THEN <<>>
  ELSE CIterate_forward(start, slot - 1) \o <<slot - 1>>

\* CIterate::operator(): while (slot-- != start) functor(slot); the slots in
\* the order the functor sees them
RECURSIVE CIterate(_, _)
CIterate(start, slot) ==
  IF slot = start THEN <<>>
  ELSE <<slot - 1>> \o CIterate(start, slot - 1)

\* for_each_block_in_reverse(): blocks b, b - 1, ..., 1
RECURSIVE for_each_block_in_reverse(_, _)
for_each_block_in_reverse(n, b) ==
  IF b = 0 THEN <<>>
  ELSE CIterate(block_begin(b), block_end(n, b))
       \o for_each_block_in_reverse(n, b - 1)

\* the slots of a memo in the order a walk visits them
memo_order(memo) == for_each_block_in_reverse(Len(memo), memo_blocks(Len(memo)))

\* the functors ReleaseLatches and ReleaseAll over the slots order[k..]: a
\* slot with an object has its latch or fix released and its object set to
\* NULL; hist gets the slots released
RECURSIVE release_slots(_, _, _, _, _, _)
release_slots(memo, bp, hist, order, k, t) ==
  IF k > Len(order) THEN [memo |-> memo, bp |-> bp, hist |-> hist]
  ELSE LET i == order[k] IN
       IF memo[i].object = NoPage
       THEN release_slots(memo, bp, hist, order, k + 1, t)
       ELSE release_slots([memo EXCEPT ![i].object = NoPage],
                          memo_slot_release(bp, memo[i], t),
                          Append(hist, [slot |-> i, object |-> memo[i].object,
                                        type |-> memo[i].type]),
                          order, k + 1, t)

\* Iterate<Find>: the first slot of the walk with this object and type, 0 when
\* the walk ends without one
RECURSIVE Find(_, _, _, _, _)
Find(memo, order, k, object, type) ==
  IF k > Len(order) THEN 0
  ELSE IF memo[order[k]].object = object /\ memo[order[k]].type = type
  THEN order[k]
  ELSE Find(memo, order, k + 1, object, type)

\* Iterate<FindPage>: the first slot of the walk whose type is in flags and
\* whose block holds the page frame
RECURSIVE FindPage(_, _, _, _, _)
FindPage(memo, order, k, p, flags) ==
  IF k > Len(order) THEN 0
  ELSE IF /\ memo[order[k]].type \in flags
          /\ memo[order[k]].object # NoPage
          /\ memo[order[k]].object = p
  THEN order[k]
  ELSE FindPage(memo, order, k + 1, p, flags)

\* variant: the released slot is taken out of the memo
RECURSIVE memo_slot_removed(_, _)
memo_slot_removed(memo, i) ==
  IF i = Len(memo) THEN SubSeq(memo, 1, i - 1)
  ELSE memo_slot_removed([memo EXCEPT ![i] = memo[i + 1]], i + 1)

\* memo_slot_release(): slot->object= NULL
memo_slot_nulled(memo, i) == [memo EXCEPT ![i].object = NoPage]

\* the release of the one slot i by memo_release() or release_page()
ReleaseSlot(t, i) ==
  LET m == mtr[t] IN
  IF i = 0
  THEN UNCHANGED <<mtr, buf_pool, release_hist>>
  ELSE /\ mtr' = [mtr EXCEPT ![t].m_memo = memo_slot_nulled(m.m_memo, i)]
       /\ buf_pool' = memo_slot_release(buf_pool, m.m_memo[i], t)
       /\ release_hist' = Append(release_hist,
                                 [slot |-> i, object |-> m.m_memo[i].object,
                                  type |-> m.m_memo[i].type])

\* mtr_t::start()
MemoMtrStart ==
  /\ ~aborted
  /\ pc[MemoThread] = "idle"
  /\ n_ops < MaxMemoMtrs
  /\ \E mode \in {MTR_LOG_ALL, MTR_LOG_NO_REDO} :
       mtr' = [mtr EXCEPT ![MemoThread] =
                 [NoMtr EXCEPT !.active = TRUE, !.m_log_mode = mode]]
  /\ release_hist' = <<>>
  /\ pc' = [pc EXCEPT ![MemoThread] = "memo_active"]
  /\ n_ops' = n_ops + 1
  /\ UNCHANGED <<log_sys, srv_log_buffer_size, locks, new_redo, buf_pool, loc,
                 aborted, mtr_hist, flush_hist, ckpt_hist, io_error,
                 empty_commit, capacity_hist, srv, n_page_flushes>>

\* the latching or fixing of a page and memo_push(object, type);
\* MTR_MEMO_MODIFY comes from set_modified() on a page the MTR has X-fixed
MemoPush ==
  /\ ~aborted
  /\ pc[MemoThread] = "memo_active"
  /\ Len(mtr[MemoThread].m_memo) < MaxMemoSlots
  /\ \E p \in Pages, type \in MemoTypes :
       LET t == MemoThread
           m == mtr[t]
       IN
       /\ type = MTR_MEMO_PAGE_X_FIX =>
            buf_pool[p].x_latch = NoThread /\ buf_pool[p].s_latch = {}
       /\ type = MTR_MEMO_PAGE_S_FIX =>
            buf_pool[p].x_latch = NoThread /\ t \notin buf_pool[p].s_latch
       /\ type = MTR_MEMO_MODIFY => buf_pool[p].x_latch = t
       /\ buf_pool' =
            IF type = MTR_MEMO_PAGE_X_FIX
            THEN [buf_pool EXCEPT ![p].x_latch = t]
            ELSE IF type = MTR_MEMO_PAGE_S_FIX
            THEN [buf_pool EXCEPT ![p].s_latch = @ \cup {t}]
            ELSE buf_pool
       /\ mtr' = [mtr EXCEPT
            ![t].m_memo = Append(@, [object |-> p, type |-> type]),
            ![t].m_modifications = @ \/ type = MTR_MEMO_MODIFY,
            ![t].m_made_dirty = @ \/ (/\ type = MTR_MEMO_PAGE_X_FIX
                                      /\ buf_pool[p].oldest_modification = 0)]
  /\ UNCHANGED <<log_sys, srv_log_buffer_size, locks, new_redo, pc, loc,
                 aborted, hists, srv, counts>>

\* mtr_t::memo_release(object, type); a page that has been written to is not
\* released in the middle of a mini-transaction
memo_release ==
  /\ ~aborted
  /\ pc[MemoThread] = "memo_active"
  /\ \E p \in Pages, type \in MemoTypes :
       LET m == mtr[MemoThread] IN
       /\ ~(m.m_modifications /\ type = MTR_MEMO_PAGE_X_FIX)
       /\ ReleaseSlot(MemoThread,
                      Find(m.m_memo, memo_order(m.m_memo), 1, p, type))
  /\ UNCHANGED <<log_sys, srv_log_buffer_size, locks, new_redo, pc, loc,
                 aborted, mtr_hist, flush_hist, ckpt_hist, io_error,
                 empty_commit, capacity_hist, srv, counts>>

\* mtr_t::release_page(ptr, type)
release_page ==
  /\ ~aborted
  /\ pc[MemoThread] = "memo_active"
  /\ \E p \in Pages, flags \in PageFlags :
       LET m == mtr[MemoThread] IN
       /\ ~(m.m_modifications /\ MTR_MEMO_PAGE_X_FIX \in flags)
       /\ ReleaseSlot(MemoThread,
                      FindPage(m.m_memo, memo_order(m.m_memo), 1, p, flags))
  /\ UNCHANGED <<log_sys, srv_log_buffer_size, locks, new_redo, pc, loc,
                 aborted, mtr_hist, flush_hist, ckpt_hist, io_error,
                 empty_commit, capacity_hist, srv, counts>>

\* mtr_t::commit() up to release_resources(): with modifications in
\* MTR_LOG_NO_REDO mode prepare_write() takes log_sys.lsn as m_commit_lsn,
\* ReleaseBlocks notes the dirtied pages and ReleaseLatches walks the memo;
\* else ReleaseAll walks the memo
MemoCommit ==
  /\ ~aborted
  /\ pc[MemoThread] = "memo_active"
  /\ log_mutex = NoThread /\ log_flush_order_mutex = NoThread
  /\ LET t == MemoThread
         m == mtr[t]
         writes == mtr_commit_writes(m)
         bp1 == IF writes
                THEN ReleaseBlocks(m.m_memo, buf_pool, Len(m.m_memo),
                                   log_sys.lsn, log_sys.lsn)
                ELSE buf_pool
         r == release_slots(m.m_memo, bp1, release_hist,
                            memo_order(m.m_memo), 1, t)
     IN
     /\ buf_pool' = r.bp
     /\ release_hist' = r.hist
     /\ mtr' = [mtr EXCEPT ![t].m_memo = r.memo,
                           ![t].m_commit_lsn = IF writes THEN log_sys.lsn
                                               ELSE @]
     /\ flush_hist' = IF writes
                      THEN flush_hist \o
                           FlushListInsertions(m.m_memo, buf_pool,
                                               Len(m.m_memo), t,
                                               log_sys.lsn, log_sys.lsn)
                      ELSE flush_hist
     /\ empty_commit' = (empty_commit \/ ~writes)
  /\ pc' = [pc EXCEPT ![MemoThread] = "release_resources"]
  /\ UNCHANGED <<log_sys, srv_log_buffer_size, locks, new_redo, loc, aborted,
                 mtr_hist, ckpt_hist, io_error, capacity_hist, srv, counts>>

\* mtr_t::release_resources(): m_log.erase(), m_memo.erase()
release_resources ==
  /\ ~aborted
  /\ pc[MemoThread] = "release_resources"
  /\ mtr' = [mtr EXCEPT ![MemoThread] = NoMtr]
  /\ pc' = [pc EXCEPT ![MemoThread] = "idle"]
  /\ UNCHANGED <<log_sys, srv_log_buffer_size, locks, new_redo, buf_pool, loc,
                 aborted, hists, srv, counts>>

MemoNext ==
  \/ MemoMtrStart
  \/ MemoPush
  \/ memo_release
  \/ release_page
  \/ MemoCommit
  \/ release_resources

MemoSpec == Init /\ [][MemoNext]_vars

\* the slots a step adds to release_hist
NewReleases == SubSeq(release_hist', Len(release_hist) + 1, Len(release_hist'))

CommitWalks == pc[MemoThread] = "memo_active"
               /\ pc'[MemoThread] = "release_resources"

\* C24: the walk of mtr_t::commit() releases the latches and fixes of the memo
\* in the reverse of the order in which their slots were pushed: every slot
\* that still has an object is released, and of two slots released the one
\* pushed later is released first, whether the two are in one block of the
\* memo or in two, in the path with ReleaseBlocks and ReleaseLatches as well
\* as in the path with ReleaseAll.
C24_ReleaseInReverse ==
  [][CommitWalks =>
       LET memo == mtr[MemoThread].m_memo
           new == NewReleases
       IN
       /\ {new[k].slot : k \in DOMAIN new}
            = {i \in DOMAIN memo : memo[i].object # NoPage}
       /\ \A j, k \in DOMAIN new : j < k => new[j].slot > new[k].slot
       /\ \A k \in DOMAIN new :
            /\ new[k].object = memo[new[k].slot].object
            /\ new[k].type = memo[new[k].slot].type]_vars

\* a commit of either path has released, last slot first, three latches or
\* fixes that lie in two blocks of the memo
C24_WitnessPath(writes) ==
  /\ pc[MemoThread] = "release_resources"
  /\ (mtr[MemoThread].m_commit_lsn # 0) = writes
  /\ Len(release_hist) >= 3
  /\ \E k \in 1..(Len(release_hist) - 2) :
       /\ release_hist[k].slot = release_hist[k + 1].slot + 1
       /\ release_hist[k + 1].slot = release_hist[k + 2].slot + 1
       /\ release_hist[k].slot > MemoBlockSlots
       /\ release_hist[k + 2].slot <= MemoBlockSlots
       /\ \A j \in {k, k + 1, k + 2} : release_hist[j].type # MTR_MEMO_MODIFY

\* a mini-transaction with modifications in MTR_LOG_NO_REDO mode has walked
\* its memo after ReleaseBlocks
C24_Witness == C24_WitnessPath(TRUE) /\ flush_hist # <<>>

C24_WitnessReleaseAll == C24_WitnessPath(FALSE)


\* every slot of the memo is in release_hist once if its object is NULL and
\* not at all if it still has its object
ReleasedOnce(memo, hist) ==
  /\ \A j, k \in DOMAIN hist : hist[j].slot = hist[k].slot => j = k
  /\ \A i \in DOMAIN memo :
       (memo[i].object = NoPage) <=> (\E k \in DOMAIN hist : hist[k].slot = i)

\* C25: while a mini-transaction is active no slot leaves its memo: a step of
\* memo_release() or release_page() that releases a latch or fix keeps the
\* number of slots and the type of every slot, and sets the object of the one
\* slot it released to NULL; no latch or fix of the memo is released twice,
\* the walk of commit releases exactly the slots that still have an object,
\* and when release_resources() is entered every slot has a NULL object and
\* has been released once.
C25_SlotsNulledInPlace ==
  [][LET t == MemoThread
         memo == mtr[t].m_memo
         memo2 == mtr'[t].m_memo
     IN
     /\ pc[t] = "memo_active" =>
          /\ Len(memo2) >= Len(memo)
          /\ \A i \in DOMAIN memo :
               /\ memo2[i].type = memo[i].type
               /\ memo2[i].object \in {memo[i].object, NoPage}
     /\ (pc[t] = "memo_active" /\ pc'[t] = "memo_active"
         /\ release_hist' # release_hist) =>
          /\ Len(memo2) = Len(memo)
          /\ Len(NewReleases) = 1
          /\ memo[NewReleases[1].slot].object # NoPage
          /\ \A i \in DOMAIN memo :
               memo2[i].object = IF i = NewReleases[1].slot THEN NoPage
                                 ELSE memo[i].object
     /\ pc'[t] \in {"memo_active", "release_resources"} =>
          ReleasedOnce(memo2, release_hist')
     /\ pc'[t] = "release_resources" =>
          /\ \A i \in DOMAIN memo2 : memo2[i].object = NoPage
          /\ Len(release_hist') = Len(memo2)
          /\ \A p \in Pages : /\ buf_pool'[p].x_latch # t
                              /\ t \notin buf_pool'[p].s_latch]_vars

\* commit with ReleaseAll has walked a memo of two blocks in which
\* memo_release() or release_page() had set the object of a slot to NULL
\* before a slot pushed later was released
C25_Witness ==
  /\ pc[MemoThread] = "release_resources"
  /\ mtr[MemoThread].m_commit_lsn = 0
  /\ Len(mtr[MemoThread].m_memo) > MemoBlockSlots
  /\ \A i \in DOMAIN mtr[MemoThread].m_memo :
       mtr[MemoThread].m_memo[i].object = NoPage
  /\ \E j, k \in DOMAIN release_hist :
       /\ j < k
       /\ release_hist[j].slot < release_hist[k].slot
       /\ release_hist[j].type # MTR_MEMO_MODIFY


(***************************************************************************)
(* logs_empty_and_mark_files_at_shutdown() of a normal shutdown             *)
(* (srv_fast_shutdown < 2, not read-only, srv_force_recovery = 0), run by   *)
(* one thread while the other threads go on with the log                    *)
(***************************************************************************)
ShutdownThread == "t2"
\* transactions that are active when the shutdown begins; operations the
\* other thread starts
MaxTrx == 1
MaxShutdownOps == 2

\* log_sys.pending_flushes: the threads inside data_flush_data_only()
pending_flushes == Cardinality({t \in Threads : pc[t] = "wut_flush_low"})

\* a transaction begins while the server is not shutting down
TrxBegin ==
  /\ Running
  /\ srv.srv_shutdown_state = "SRV_SHUTDOWN_NONE"
  /\ srv.n_trx < MaxTrx
  /\ srv' = [srv EXCEPT !.n_trx = @ + 1]
  /\ UNCHANGED <<log_sys, srv_log_buffer_size, locks, new_redo, buf_pool, pc,
                 mtr, loc, aborted, hists, counts>>

\* a transaction ends
TrxEnd ==
  /\ Running
  /\ srv.n_trx > 0
  /\ srv' = [srv EXCEPT !.n_trx = @ - 1]
  /\ UNCHANGED <<log_sys, srv_log_buffer_size, locks, new_redo, buf_pool, pc,
                 mtr, loc, aborted, hists, counts>>

\* a page read or write of the buffer pool begins, while the page cleaner is
\* at work, and ends
BufIo ==
  /\ Running
  /\ IF srv.pending_io = 0
     THEN /\ srv.buf_page_cleaner_is_active
          /\ srv' = [srv EXCEPT !.pending_io = 1]
     ELSE srv' = [srv EXCEPT !.pending_io = 0]
  /\ UNCHANGED <<log_sys, srv_log_buffer_size, locks, new_redo, buf_pool, pc,
                 mtr, loc, aborted, hists, counts>>

\* the page cleaner ends in SRV_SHUTDOWN_FLUSH_PHASE
PageCleanerExit ==
  /\ Running
  /\ srv.srv_shutdown_state = "SRV_SHUTDOWN_FLUSH_PHASE"
  /\ srv.buf_page_cleaner_is_active
  /\ srv' = [srv EXCEPT !.buf_page_cleaner_is_active = FALSE]
  /\ UNCHANGED <<log_sys, srv_log_buffer_size, locks, new_redo, buf_pool, pc,
                 mtr, loc, aborted, hists, counts>>

\* entry, up to the label loop: srv_shutdown_state = SRV_SHUTDOWN_CLEANUP
ShutdownBegin ==
  /\ Running
  /\ pc[ShutdownThread] = "idle"
  /\ srv.srv_shutdown_state = "SRV_SHUTDOWN_NONE"
  /\ srv' = [srv EXCEPT !.srv_shutdown_state = "SRV_SHUTDOWN_CLEANUP"]
  /\ pc' = [pc EXCEPT ![ShutdownThread] = "sd_loop"]
  /\ UNCHANGED <<log_sys, srv_log_buffer_size, locks, new_redo, buf_pool, mtr,
                 loc, aborted, hists, counts>>

\* ut_ad(!srv_any_background_activity()): the threads that write the log
\* other than the one that shuts down are suspended, none is in an operation
srv_any_background_activity ==
  \E t \in Threads \ {ShutdownThread} : pc[t] # "idle"

\* the other threads start operations until the shutdown has found the
\* server without transactions and background activity
srv_threads_run ==
  srv.srv_shutdown_state \in {"SRV_SHUTDOWN_NONE", "SRV_SHUTDOWN_CLEANUP"}

\* loop: goto loop while trx_sys.any_active_transactions(); the background
\* threads are suspended; then srv_shutdown_state = SRV_SHUTDOWN_FLUSH_PHASE
ShutdownLoop ==
  /\ Running
  /\ pc[ShutdownThread] = "sd_loop"
  /\ IF srv.n_trx # 0
     THEN UNCHANGED <<srv, pc>>
     ELSE /\ ~srv_any_background_activity
          /\ srv' = [srv EXCEPT
                       !.srv_shutdown_state = "SRV_SHUTDOWN_FLUSH_PHASE"]
          /\ pc' = [pc EXCEPT ![ShutdownThread] = "sd_page_cleaner"]
  /\ UNCHANGED <<log_sys, srv_log_buffer_size, locks, new_redo, buf_pool, mtr,
                 loc, aborted, hists, counts>>

\* while (buf_page_cleaner_is_active) os_thread_sleep(); then, under
\* log_mutex, n_write and n_flush: goto loop if one of them is not 0
ShutdownPending ==
  /\ Running
  /\ pc[ShutdownThread] = "sd_page_cleaner"
  /\ ~srv.buf_page_cleaner_is_active
  /\ log_mutex = NoThread
  /\ LET n_write == log_sys.n_pending_checkpoint_writes
         n_flush == pending_flushes
     IN IF n_write # 0 \/ n_flush # 0
        THEN pc' = [pc EXCEPT ![ShutdownThread] = "sd_loop"]
        ELSE pc' = [pc EXCEPT ![ShutdownThread] = "sd_pending_io"]
  /\ UNCHANGED <<log_sys, srv_log_buffer_size, locks, new_redo, buf_pool, mtr,
                 loc, aborted, hists, srv, counts>>

\* buf_pool_check_no_pending_io(): goto loop if I/O of pages is pending
ShutdownPendingIo ==
  /\ Running
  /\ pc[ShutdownThread] = "sd_pending_io"
  /\ IF srv.pending_io # 0
     THEN pc' = [pc EXCEPT ![ShutdownThread] = "sd_loop"]
     ELSE pc' = [pc EXCEPT ![ShutdownThread] = "sd_make_checkpoint"]
  /\ UNCHANGED <<log_sys, srv_log_buffer_size, locks, new_redo, buf_pool, mtr,
                 loc, aborted, hists, srv, counts>>

\* buf_flush_lists(ULINT_MAX, LSN_MAX) and buf_flush_wait_batch_end(): the
\* dirty pages that are not X-latched and whose log is durable are written
\* back
buf_flush_lists(bp, flushed_lsn) ==
  [p \in Pages |->
     IF /\ bp[p].oldest_modification # 0
        /\ bp[p].x_latch = NoThread
        /\ bp[p].newest_modification <= flushed_lsn
     THEN [bp[p] EXCEPT !.oldest_modification = 0]
     ELSE bp[p]]

\* log_make_checkpoint(): while (!log_preflush_pool_modified_pages(LSN_MAX))
LogMakeCheckpoint ==
  /\ Running
  /\ pc[ShutdownThread] = "sd_make_checkpoint"
  /\ buf_pool' = buf_flush_lists(buf_pool, log_sys.flushed_to_disk_lsn)
  /\ pc' = [pc EXCEPT ![ShutdownThread] = "sd_checkpoint"]
  /\ UNCHANGED <<log_sys, srv_log_buffer_size, locks, new_redo, mtr, loc,
                 aborted, hists, srv, counts>>

\* log_make_checkpoint(): a call of log_checkpoint()
LogMakeCheckpointCall ==
  /\ Running
  /\ pc[ShutdownThread] = "sd_checkpoint"
  /\ loc' = [loc EXCEPT ![ShutdownThread].ck_ret = "sd_checkpoint"]
  /\ pc' = [pc EXCEPT ![ShutdownThread] = "ck_begin"]
  /\ UNCHANGED <<log_sys, srv_log_buffer_size, locks, new_redo, buf_pool, mtr,
                 aborted, hists, srv, counts>>

\* log_make_checkpoint(): while (!log_checkpoint()) with the value returned
LogMakeCheckpointReturn ==
  /\ Running
  /\ pc[ShutdownThread] = "ck_done"
  /\ loc[ShutdownThread].ck_ret = "sd_checkpoint"
  /\ pc' = [pc EXCEPT ![ShutdownThread] =
              IF loc[ShutdownThread].ck_success THEN "sd_barrier"
              ELSE "sd_checkpoint"]
  /\ loc' = [loc EXCEPT ![ShutdownThread] = ClearCk(@)]
  /\ UNCHANGED <<log_sys, srv_log_buffer_size, locks, new_redo, buf_pool, mtr,
                 aborted, hists, srv, counts>>

\* variant: the test after the final checkpoint never sends the loop round
lsn_changed_never(ls) == FALSE

\* const bool lsn_changed = lsn != log_sys.last_checkpoint_lsn
lsn_changed(ls) == ls.lsn # ls.last_checkpoint_lsn

\* log_mutex_enter(); lsn = log_sys.lsn; lsn_changed; log_mutex_exit();
\* if (lsn_changed) goto loop; else data_flush_data_only() and
\* srv_shutdown_state = SRV_SHUTDOWN_LAST_PHASE
ShutdownBarrier ==
  /\ Running
  /\ pc[ShutdownThread] = "sd_barrier"
  /\ log_mutex = NoThread
  /\ IF lsn_changed(log_sys)
     THEN /\ srv' = [srv EXCEPT !.repeated = TRUE]
          /\ pc' = [pc EXCEPT ![ShutdownThread] = "sd_loop"]
     ELSE /\ srv' = [srv EXCEPT
                       !.lsn = log_sys.lsn,
                       !.srv_shutdown_state = "SRV_SHUTDOWN_LAST_PHASE"]
          /\ pc' = [pc EXCEPT ![ShutdownThread] = "sd_last_phase"]
  /\ UNCHANGED <<log_sys, srv_log_buffer_size, locks, new_redo, buf_pool, mtr,
                 loc, aborted, hists, counts>>

\* ut_a(lsn == log_sys.lsn) after SRV_SHUTDOWN_LAST_PHASE
ShutdownLastPhase ==
  /\ Running
  /\ pc[ShutdownThread] = "sd_last_phase"
  /\ IF srv.lsn # log_sys.lsn
     THEN /\ aborted' = TRUE
          /\ UNCHANGED pc
     ELSE /\ pc' = [pc EXCEPT ![ShutdownThread] = "sd_stamp"]
          /\ UNCHANGED aborted
  /\ UNCHANGED <<log_sys, srv_log_buffer_size, locks, new_redo, buf_pool, mtr,
                 loc, hists, srv, counts>>

\* srv_shutdown_lsn = lsn; fil_write_flushed_lsn(lsn)
ShutdownStamp ==
  /\ Running
  /\ pc[ShutdownThread] = "sd_stamp"
  /\ srv' = [srv EXCEPT !.flushed_lsn = srv.lsn]
  /\ pc' = [pc EXCEPT ![ShutdownThread] = "sd_close"]
  /\ UNCHANGED <<log_sys, srv_log_buffer_size, locks, new_redo, buf_pool, mtr,
                 loc, aborted, hists, counts>>

\* fil_close_all_files(); ut_a(lsn == log_sys.lsn)
ShutdownClose ==
  /\ Running
  /\ pc[ShutdownThread] = "sd_close"
  /\ IF srv.lsn # log_sys.lsn
     THEN /\ aborted' = TRUE
          /\ UNCHANGED pc
     ELSE /\ pc' = [pc EXCEPT ![ShutdownThread] = "sd_done"]
          /\ UNCHANGED aborted
  /\ UNCHANGED <<log_sys, srv_log_buffer_size, locks, new_redo, buf_pool, mtr,
                 loc, hists, srv, counts>>

\* the steps of the log, with log_checkpoint() returning to
\* log_make_checkpoint() where that called it, and the steps of the shutdown
ShutdownNext ==
  \/ srv_threads_run /\ n_ops < MaxShutdownOps /\ MtrStart("t1")
  \/ LogSetCapacity
  \/ \E t \in Threads : MtrCommit(t)
  \/ \E t \in Threads : PrepareWriteNoRedo(t)
  \/ \E t \in Threads : LogBufferExtend(t)
  \/ \E t \in Threads : PrepareWriteEnter(t)
  \/ \E t \in Threads : LogMutexReenter(t)
  \/ \E t \in Threads : FinishWrite(t)
  \/ \E t \in Threads : ReserveAndWrite(t)
  \/ \E t \in Threads : LogBufferSyncInBackground(t)
  \/ \E t \in Threads : MtrFlushOrderEnter(t)
  \/ \E t \in Threads : MtrLogMutexExit(t)
  \/ \E t \in Threads : MtrReleaseBlocks(t)
  \/ \E t \in Threads : MtrReleaseLatches(t)
  \/ \E t \in Threads : LogWriteUpToBegin(t)
  \/ \E t \in Threads : LogWriteAcquire(t)
  \/ \E t \in Threads : LogWrite(t)
  \/ \E t \in Threads : LogWriteBuf(t)
  \/ \E t \in Threads : LogWriteUpToFlush(t)
  \/ \E t \in Threads : LogWriteFlushToDiskLow(t)
  \/ \E t \in Threads : LogWriteUpToReturn(t)
  \/ \E t \in Threads : LogCheckpointBegin(t)
  \/ \E t \in Threads : LogCheckpointAfterWrite(t)
  \/ \E t \in Threads : LogCheckpointAppend(t)
  \/ \E t \in Threads : LogCheckpointFinish(t)
  \/ \E t \in Threads : loc[t].ck_ret # "sd_checkpoint" /\ LogCheckpointReturn(t)
  \/ srv_threads_run /\ n_ops < MaxShutdownOps /\ CallLogWriteUpTo("t1")
  \/ srv_threads_run /\ n_ops < MaxShutdownOps /\ CallLogCheckpoint("t1")
  \/ \E p \in Pages : BufFlushPage(p)
  \/ TrxBegin
  \/ TrxEnd
  \/ BufIo
  \/ PageCleanerExit
  \/ ShutdownBegin
  \/ ShutdownLoop
  \/ ShutdownPending
  \/ ShutdownPendingIo
  \/ LogMakeCheckpoint
  \/ LogMakeCheckpointCall
  \/ LogMakeCheckpointReturn
  \/ ShutdownBarrier
  \/ ShutdownLastPhase
  \/ ShutdownStamp
  \/ ShutdownClose

ShutdownSpec == Init /\ [][ShutdownNext]_vars


\* the step that takes the shutdown past its last goto loop
PassesBarrier == /\ pc[ShutdownThread] = "sd_barrier"
                 /\ pc'[ShutdownThread] = "sd_last_phase"

\* C26: the shutdown goes past its last goto loop only in a state with no
\* active transaction, no pending checkpoint write, no pending flush of the
\* log, no pending I/O of the buffer pool and log_sys.lsn equal to
\* last_checkpoint_lsn; from the test after log_make_checkpoint() it goes back
\* to the label loop when the two LSNs differ; the LSN it stamps into the
\* tablespace headers is the one it read at that test, and is log_sys.lsn
\* when the shutdown returns.
C26_ShutdownBarrier ==
  [][/\ PassesBarrier =>
          /\ srv.n_trx = 0
          /\ log_sys.n_pending_checkpoint_writes = 0
          /\ pending_flushes = 0
          /\ srv.pending_io = 0
          /\ log_sys.lsn = log_sys.last_checkpoint_lsn
          /\ log_sys' = log_sys
     /\ (/\ pc[ShutdownThread] = "sd_barrier"
         /\ pc'[ShutdownThread] # "sd_barrier"
         /\ log_sys.lsn # log_sys.last_checkpoint_lsn) =>
          pc'[ShutdownThread] = "sd_loop"
     /\ srv'.flushed_lsn # srv.flushed_lsn =>
          srv'.flushed_lsn = srv.lsn
     /\ (pc[ShutdownThread] = "sd_close" /\ pc'[ShutdownThread] = "sd_done") =>
          srv'.flushed_lsn = log_sys'.lsn]_vars

\* a shutdown has returned after it went round the loop because the final
\* checkpoint left last_checkpoint_lsn behind the lsn of a mini-transaction
C26_Witness ==
  /\ pc[ShutdownThread] = "sd_done"
  /\ srv.repeated
  /\ srv.flushed_lsn = log_sys.lsn
  /\ log_sys.lsn > 1
  /\ log_sys.last_checkpoint_lsn = log_sys.lsn


(***************************************************************************)
(* log_checkpoint_margin(), with mini-transactions whose lengths take the   *)
(* age of the checkpoint close to max_checkpoint_age and past it            *)
(***************************************************************************)
\* sizes of the record buffers: the larger one leaves lsn - last_checkpoint_lsn
\* a little below the max_checkpoint_age that log_set_capacity(LogFileSize)
\* computes, the smaller one fits into the block the larger one ended in
MarginLens == {100, 171629}

MtrStartMargin(t) == mtr_start(t, MarginLens)

\* buf_flush_lists(ULINT_MAX, new_oldest): the dirty pages older than
\* new_oldest that are not X-latched and whose log is durable are written
\* back
buf_flush_lists_below(bp, flushed_lsn, new_oldest) ==
  [p \in Pages |->
     IF /\ bp[p].oldest_modification # 0
        /\ bp[p].oldest_modification < new_oldest
        /\ bp[p].x_latch = NoThread
        /\ bp[p].newest_modification <= flushed_lsn
     THEN [bp[p] EXCEPT !.oldest_modification = 0]
     ELSE bp[p]]

\* variant: the flag is cleared whatever the checkpoint age
log_checkpoint_margin_clears_always(ls) ==
  [ls EXCEPT !.check_flush_or_checkpoint = FALSE]

\* if (checkpoint_age <= log_sys.max_checkpoint_age)
\*   log_sys.check_flush_or_checkpoint = false
log_checkpoint_margin_clears(ls) ==
  IF ls.lsn - ls.last_checkpoint_lsn <= ls.max_checkpoint_age
  THEN [ls EXCEPT !.check_flush_or_checkpoint = FALSE]
  ELSE ls

\* log_checkpoint_margin() from loop: to log_mutex_exit(): the return when the
\* flag is not set, else advance, do_checkpoint and the flag
LogCheckpointMargin(t) ==
  /\ Running
  /\ \/ pc[t] = "idle" /\ n_ops < MaxOps /\ n_ops' = n_ops + 1
     \/ pc[t] = "cm_loop" /\ n_ops' = n_ops
  /\ log_mutex = NoThread
  /\ log_flush_order_mutex = NoThread
  /\ IF ~log_sys.check_flush_or_checkpoint
     THEN /\ pc' = [pc EXCEPT ![t] = loc[t].cm_ret]
          /\ UNCHANGED <<log_sys, loc>>
     ELSE LET oldest_lsn == log_buf_pool_get_oldest_modification(log_sys,
                                                                 buf_pool)
              age == log_sys.lsn - oldest_lsn
              advance == IF age > log_sys.max_modified_age_sync
                         THEN age - log_sys.max_modified_age_sync ELSE 0
              checkpoint_age == log_sys.lsn - log_sys.last_checkpoint_lsn
              do_checkpoint == checkpoint_age > log_sys.max_checkpoint_age_async
          IN
          /\ log_sys' = log_checkpoint_margin_clears(log_sys)
          /\ loc' = [loc EXCEPT
                       ![t].cm_new_oldest = IF advance # 0
                                            THEN oldest_lsn + advance ELSE 0,
                       ![t].cm_do_checkpoint = do_checkpoint]
          /\ pc' = [pc EXCEPT ![t] = "cm_advance"]
  /\ UNCHANGED <<srv_log_buffer_size, locks, new_redo, buf_pool, mtr, aborted,
                 hists, srv, n_page_flushes>>

\* the pages buf_flush_lists(ULINT_MAX, new_oldest) writes back, and the lsn
\* up to which the log is made durable before it writes them
preflush_pages(bp, new_oldest) ==
  {p \in Pages : /\ bp[p].oldest_modification # 0
                 /\ bp[p].oldest_modification < new_oldest
                 /\ bp[p].x_latch = NoThread}

RECURSIVE preflush_lsn(_, _)
preflush_lsn(bp, ps) ==
  IF ps = {} THEN 0
  ELSE LET p == CHOOSE q \in ps : TRUE
           rest == preflush_lsn(bp, ps \ {p})
       IN IF bp[p].newest_modification > rest
          THEN bp[p].newest_modification ELSE rest

\* if (advance) log_preflush_pool_modified_pages(new_oldest), which fails when
\* another flush batch is running: the flag is set again and goto loop.  A
\* batch that runs makes the log durable up to the newest modification of
\* the pages it writes.  Without advance: if (do_checkpoint) log_checkpoint()
LogCheckpointMarginAdvance(t) ==
  /\ Running
  /\ pc[t] = "cm_advance"
  /\ \E success \in BOOLEAN :
       IF loc[t].cm_new_oldest # 0 /\ ~success
       THEN /\ log_mutex = NoThread
            /\ log_sys' = [log_sys EXCEPT !.check_flush_or_checkpoint = TRUE]
            /\ loc' = [loc EXCEPT ![t].cm_new_oldest = 0,
                                  ![t].cm_do_checkpoint = FALSE]
            /\ pc' = [pc EXCEPT ![t] = "cm_loop"]
       ELSE LET ps == preflush_pages(buf_pool, loc[t].cm_new_oldest) IN
            /\ IF loc[t].cm_new_oldest # 0 /\ ps # {}
               THEN /\ loc' = [loc EXCEPT
                                 ![t].wut_lsn = preflush_lsn(buf_pool, ps),
                                 ![t].wut_flush = TRUE,
                                 ![t].wut_ret = "cm_flush"]
                    /\ pc' = [pc EXCEPT ![t] = "wut_begin"]
               ELSE /\ loc' = [loc EXCEPT ![t].cm_new_oldest = 0,
                                          ![t].cm_do_checkpoint = FALSE,
                                          ![t].ck_ret = loc[t].cm_ret]
                    /\ pc' = [pc EXCEPT ![t] = IF loc[t].cm_do_checkpoint
                                               THEN "ck_begin"
                                               ELSE loc[t].cm_ret]
            /\ UNCHANGED log_sys
  /\ UNCHANGED <<srv_log_buffer_size, locks, new_redo, buf_pool, mtr, aborted,
                 hists, srv, counts>>

\* the flush batch of log_preflush_pool_modified_pages(new_oldest) after the
\* log write; then if (do_checkpoint) log_checkpoint()
LogPreflushPages(t) ==
  /\ Running
  /\ pc[t] = "cm_flush"
  /\ buf_pool' = buf_flush_lists_below(buf_pool, log_sys.flushed_to_disk_lsn,
                                       loc[t].cm_new_oldest)
  /\ loc' = [loc EXCEPT ![t].cm_new_oldest = 0,
                        ![t].cm_do_checkpoint = FALSE,
                        ![t].ck_ret = loc[t].cm_ret]
  /\ pc' = [pc EXCEPT ![t] = IF loc[t].cm_do_checkpoint
                             THEN "ck_begin" ELSE loc[t].cm_ret]
  /\ UNCHANGED <<log_sys, srv_log_buffer_size, locks, new_redo, mtr, aborted,
                 hists, srv, counts>>

MarginNext ==
  \/ \E t \in Threads : MtrStartMargin(t)
  \/ \E t \in Threads : LogCheckpointMargin(t)
  \/ \E t \in Threads : LogCheckpointMarginAdvance(t)
  \/ \E t \in Threads : LogPreflushPages(t)
  \/ LogNext

MarginSpec == Init /\ [][MarginNext]_vars

\* C27: whenever no thread holds log_mutex and lsn - last_checkpoint_lsn is
\* greater than max_checkpoint_age, the flag check_flush_or_checkpoint is
\* set: no append lets the age pass max_checkpoint_age without setting it.
C27_FlagWhenPastMaxAge ==
  (Running /\ log_mutex = NoThread) =>
    (log_sys.lsn - log_sys.last_checkpoint_lsn > log_sys.max_checkpoint_age
       => log_sys.check_flush_or_checkpoint)


(***************************************************************************)
(* log_set_capacity(file_size) over a range of file sizes, some of them too *)
(* small for the space reserved for the threads                             *)
(***************************************************************************)
MaxFileSizes == 150
FileSizeStep == 512
\* with srv_thread_concurrency = 0 the call fails below 436908 bytes
FileSizes == {400000 + FileSizeStep * k : k \in 0..MaxFileSizes}

\* free of log_set_capacity
log_checkpoint_free ==
  LOG_CHECKPOINT_FREE_PER_THREAD * (10 + srv_thread_concurrency)
  + LOG_CHECKPOINT_EXTRA_FREE

\* the value log_set_capacity(file_size) returns
log_set_capacity_ret(file_size) ==
  ~(log_checkpoint_free >= (file_size - file_size \div 10) \div 2)

LogSetCapacityOf(file_size) ==
  /\ ~aborted
  /\ log_mutex = NoThread
  /\ log_sys' = log_set_capacity(log_sys, file_size)
  /\ capacity_hist' = [file_size |-> file_size,
                       ret |-> log_set_capacity_ret(file_size)]
  /\ UNCHANGED <<srv_log_buffer_size, locks, new_redo, buf_pool, pc, mtr,
                 loc, aborted, mtr_hist, flush_hist, ckpt_hist, io_error,
                 empty_commit, release_hist, srv, counts>>

CapacityNext == \E file_size \in FileSizes : LogSetCapacityOf(file_size)

CapacitySpec == Init /\ [][CapacityNext]_vars

\* the thresholds of ls as the call with file_size leaves them: log_capacity is
\* the file size less a tenth; the margin is log_capacity less the space
\* reserved for the threads, less a tenth of that; the four thresholds are the
\* margin less its 8th, 16th and 32nd part, and the margin
ThresholdsDerived(ls, file_size) ==
  LET margin0 == ls.log_capacity - log_checkpoint_free
      margin == margin0 - margin0 \div 10
  IN /\ ls.log_capacity = file_size - file_size \div 10
     /\ ls.max_modified_age_async = margin - margin \div 8
     /\ ls.max_modified_age_sync = margin - margin \div 16
     /\ ls.max_checkpoint_age_async = margin - margin \div 32
     /\ ls.max_checkpoint_age = margin

ThresholdsOrdered(ls) ==
  /\ ls.max_modified_age_async <= ls.max_modified_age_sync
  /\ ls.max_modified_age_sync <= ls.max_checkpoint_age_async
  /\ ls.max_checkpoint_age_async <= ls.max_checkpoint_age
  /\ ls.max_checkpoint_age <= ls.log_capacity

\* C28: a call of log_set_capacity that returns true leaves the four
\* thresholds derived from log_capacity (the margin less 1/8, 1/16, 1/32 of it
\* and the margin itself) and ordered max_modified_age_async <=
\* max_modified_age_sync <= max_checkpoint_age_async <= max_checkpoint_age <=
\* log_capacity; a call that returns false, which it does exactly when the
\* reserved space is at least half of the capacity, changes nothing in log_sys.
C28_SetCapacity ==
  [][capacity_hist' # capacity_hist =>
       /\ capacity_hist'.ret =
            (log_checkpoint_free <
               (capacity_hist'.file_size
                - capacity_hist'.file_size \div 10) \div 2)
       /\ IF capacity_hist'.ret
          THEN /\ ThresholdsDerived(log_sys', capacity_hist'.file_size)
               /\ ThresholdsOrdered(log_sys')
          ELSE log_sys' = log_sys]_vars

\* a call has failed after an earlier one had set the thresholds, which are
\* still those of the earlier call and strictly ordered
C28_Witness ==
  /\ ~capacity_hist.ret
  /\ log_sys.log_capacity > 2 * log_checkpoint_free
  /\ 0 < log_sys.max_modified_age_async
  /\ log_sys.max_modified_age_async < log_sys.max_modified_age_sync
  /\ log_sys.max_modified_age_sync < log_sys.max_checkpoint_age_async
  /\ log_sys.max_checkpoint_age_async < log_sys.max_checkpoint_age
  /\ log_sys.max_checkpoint_age < log_sys.log_capacity


(***************************************************************************)
(* The write of the log buffer and log_mutex                               *)
(***************************************************************************)
\* the threads between write_lock.acquire() == ACQUIRED and
\* write_lock.release(): about to call log_write(), or in log_write_buf()
InLogWrite == {t \in Threads : pc[t] \in {"wut_log_write", "wut_write_buf"}}

\* the step is log_buffer_switch(): the other half comes into use while the
\* buffer keeps its size
IsBufferSwitch ==
  /\ log_sys'.first_in_use # log_sys.first_in_use
  /\ srv_log_buffer_size' = srv_log_buffer_size

\* C29: a thread in the physical write of the log buffer (log_write_buf) does
\* not hold log_mutex; at most one thread is inside log_write / log_write_buf
\* and it is the owner of write_lock; the buffer is switched only by the
\* owner of write_lock in the step in which it holds log_mutex (no other
\* thread holds it).
C29_WriteOutsideLogMutex ==
  /\ [](/\ Cardinality(InLogWrite) <= 1
        /\ \A t \in InLogWrite : write_lock.owner = t
        /\ \A t \in Threads : pc[t] = "wut_write_buf" => log_mutex # t)
  /\ [][IsBufferSwitch =>
          \E t \in Threads :
            /\ write_lock.owner = t
            /\ pc[t] = "wut_log_write"
            /\ pc'[t] = "wut_write_buf"
            /\ log_mutex = NoThread
            /\ log_mutex' = NoThread]_vars

\* during the write of one thread another thread, holding log_mutex, has
\* appended a mini-transaction past the lsn the write goes up to
C29_Witness ==
  \E t \in Threads : \E u \in Threads \ {t} :
    /\ pc[t] = "wut_write_buf"
    /\ write_lock.owner = t
    /\ log_mutex = u
    /\ pc[u] = "flush_order"
    /\ log_sys.lsn > loc[t].wut_write_lsn
    /\ log_sys.first_in_use = FALSE


\* C30: while a thread is in the write of the half of the log buffer it
\* snapshotted (log_write_buf, without log_mutex), no step of any thread
\* switches the halves again or replaces the buffer: appends go to the other
\* half and log_buffer_extend leaves the memory being written in place.
C30_WrittenHalfLeftAlone ==
  [][(\E t \in Threads : pc[t] = "wut_write_buf") =>
       /\ log_sys'.first_in_use = log_sys.first_in_use
       /\ srv_log_buffer_size' = srv_log_buffer_size]_vars


(***************************************************************************)
(* log_mutex and the fields of log_sys                                     *)
(***************************************************************************)
\* the fields of the global log state that log_mutex is to protect; the
\* pointer log_sys.buf is identified by the size of the allocation
LogMutexFields(ls, buffer_size) ==
  <<ls.lsn, ls.buf_free, buffer_size, ls.first_in_use, ls.buf_next_to_write,
    ls.write_lsn, ls.flushed_to_disk_lsn, ls.last_checkpoint_lsn,
    ls.next_checkpoint_lsn, ls.n_pending_checkpoint_writes,
    ls.check_flush_or_checkpoint>>

\* thread t takes the step
Steps(t) == pc'[t] # pc[t] \/ loc'[t] # loc[t] \/ mtr'[t] # mtr[t]

\* C31: every write to a field of the global log state (lsn, buf_free, buf,
\* first_in_use, buf_next_to_write, write_lsn, flushed_to_disk_lsn,
\* last_checkpoint_lsn, next_checkpoint_lsn, n_pending_checkpoint_writes,
\* check_flush_or_checkpoint) is made by a thread that holds log_mutex: no
\* step changes one of them while log_mutex is held by a thread other than the
\* one that takes the step.
C31_WritesUnderLogMutex ==
  [][LogMutexFields(log_sys', srv_log_buffer_size')
       # LogMutexFields(log_sys, srv_log_buffer_size) =>
       \A u \in Threads : log_mutex = u => Steps(u)]_vars


(***************************************************************************)
(* The flush-list insertions of a commit                                   *)
(***************************************************************************)
\* thread t takes the step of mtr_t::commit() that walks the memo with
\* ReleaseBlocks
ReleaseBlocksStep(t) ==
  pc[t] = "release_blocks" /\ pc'[t] = "release_latches"

\* the latch slot i of the memo of thread t stands for is held in bp
SlotLatchHeld(bp, slot, t) ==
  slot.object # NoPage =>
    /\ slot.type \in {MTR_MEMO_PAGE_X_FIX, MTR_MEMO_PAGE_SX_FIX} =>
         bp[slot.object].x_latch = t
    /\ slot.type = MTR_MEMO_PAGE_S_FIX => t \in bp[slot.object].s_latch

\* C32: in a committing MTR with modifications every memo slot of type
\* PAGE_X_FIX or PAGE_SX_FIX that still holds its page is noted in the flush
\* list with (start_lsn, commit_lsn) of the MTR; flush-list insertions are made
\* only in that step, which comes after the LSN interval was assigned and
\* log_mutex was released by the thread, and in which no latch of the MTR
\* has been released yet.
C32_FlushListAtCommit ==
  [][/\ \A t \in Threads : ReleaseBlocksStep(t) =>
          LET m == mtr[t] IN
          /\ m.m_modifications
          /\ 0 < loc[t].start_lsn
          /\ loc[t].start_lsn <= m.m_commit_lsn
          /\ m.m_commit_lsn <= log_sys.lsn
          /\ log_mutex # t
          /\ mtr'[t].m_memo = m.m_memo
          /\ \A i \in 1..Len(m.m_memo) :
               /\ SlotLatchHeld(buf_pool, m.m_memo[i], t)
               /\ SlotLatchHeld(buf_pool', m.m_memo[i], t)
               /\ IsDirtyingFix(m.m_memo[i]) =>
                    LET p == m.m_memo[i].object IN
                    /\ buf_pool'[p].newest_modification = m.m_commit_lsn
                    /\ buf_pool'[p].oldest_modification =
                         IF buf_pool[p].oldest_modification = 0
                         THEN loc[t].start_lsn
                         ELSE buf_pool[p].oldest_modification
     /\ flush_hist' # flush_hist =>
          \E t \in Threads :
            /\ ReleaseBlocksStep(t)
            /\ Len(flush_hist') > Len(flush_hist)
            /\ SubSeq(flush_hist', 1, Len(flush_hist)) = flush_hist
            /\ \A k \in (Len(flush_hist) + 1)..Len(flush_hist') :
                 /\ flush_hist'[k].id = t
                 /\ flush_hist'[k].start_lsn = loc[t].start_lsn
                 /\ flush_hist'[k].end_lsn = mtr[t].m_commit_lsn
                 /\ \E i \in 1..Len(mtr[t].m_memo) :
                      /\ IsDirtyingFix(mtr[t].m_memo[i])
                      /\ mtr[t].m_memo[i].object = flush_hist'[k].page]_vars

\* a thread has walked its memo with ReleaseBlocks and still holds the X-latch
\* of the page it posted with its LSN interval, while another thread holds
\* log_mutex
C32_Witness ==
  \E t \in Threads : \E p \in Pages :
    /\ pc[t] = "release_latches"
    /\ buf_pool[p].x_latch = t
    /\ loc[t].start_lsn < mtr[t].m_commit_lsn
    /\ buf_pool[p].newest_modification = mtr[t].m_commit_lsn
    /\ buf_pool[p].oldest_modification = loc[t].start_lsn
    /\ \E k \in 1..Len(flush_hist) :
         /\ flush_hist[k].id = t
         /\ flush_hist[k].page = p
         /\ flush_hist[k].end_lsn = mtr[t].m_commit_lsn
    /\ log_mutex \in Threads \ {t}


(***************************************************************************)
(* The commit of an MTR_LOG_NO_REDO mini-transaction                       *)
(***************************************************************************)
\* thread t is in the commit of an MTR_LOG_NO_REDO mini-transaction with
\* modifications
InNoRedoCommit(t) ==
  /\ mtr[t].active
  /\ mtr[t].m_log_mode = MTR_LOG_NO_REDO
  /\ mtr[t].m_modifications
  /\ pc[t] \in {"pw_no_redo", "flush_order", "log_exit", "release_blocks",
                "release_latches"}

\* C33: the commit of an MTR_LOG_NO_REDO mini-transaction with modifications
\* takes log_mutex, appends nothing and leaves lsn, buf_free and the cursor of
\* the data file as they are; its commit_lsn and its start_lsn are the
\* log_sys.lsn it reads under log_mutex, and its X- and SX-fixed pages are
\* noted in the flush list with that pair.
C33_NoRedoCommit ==
  [][\A t \in Threads : (InNoRedoCommit(t) /\ Steps(t)) =>
       /\ log_sys' = log_sys
       /\ new_redo' = new_redo
       /\ mtr_hist' = mtr_hist
       /\ srv_log_buffer_size' = srv_log_buffer_size
       /\ pc[t] = "pw_no_redo" =>
            /\ log_mutex = NoThread
            /\ log_mutex' = t
            /\ mtr'[t].m_commit_lsn = log_sys.lsn
            /\ loc'[t].start_lsn = log_sys.lsn
       /\ pc[t] \in {"flush_order", "log_exit"} =>
            /\ log_mutex = t
            /\ mtr[t].m_commit_lsn = log_sys.lsn
            /\ loc[t].start_lsn = log_sys.lsn
       /\ ReleaseBlocksStep(t) =>
            /\ loc[t].start_lsn = mtr[t].m_commit_lsn
            /\ \A i \in 1..Len(mtr[t].m_memo) :
                 IsDirtyingFix(mtr[t].m_memo[i]) =>
                   LET p == mtr[t].m_memo[i].object IN
                   /\ buf_pool'[p].newest_modification = mtr[t].m_commit_lsn
                   /\ buf_pool[p].oldest_modification = 0 =>
                        buf_pool'[p].oldest_modification
                          = mtr[t].m_commit_lsn]_vars

\* an MTR_LOG_NO_REDO mini-transaction has noted its X-fixed page, which was
\* clean, with start_lsn = commit_lsn, the lsn a logged mini-transaction had
\* left; no record of it is in the data file
C33_Witness ==
  \E t \in Threads : \E p \in Pages :
    /\ pc[t] = "release_latches"
    /\ mtr[t].m_log_mode = MTR_LOG_NO_REDO
    /\ mtr[t].m_modifications
    /\ buf_pool[p].x_latch = t
    /\ mtr[t].m_commit_lsn > 1
    /\ loc[t].start_lsn = mtr[t].m_commit_lsn
    /\ buf_pool[p].newest_modification = mtr[t].m_commit_lsn
    /\ buf_pool[p].oldest_modification = mtr[t].m_commit_lsn
    /\ \A k \in 1..Len(mtr_hist) : mtr_hist[k].id # t


(***************************************************************************)
(* The order of the records in the data file                               *)
(***************************************************************************)
\* C34: the records of the mini-transactions are in the data file in the
\* order of their LSN intervals: of two records that both have their interval
\* the one appended first has the smaller commit_lsn, also when finish_write
\* waited for room in the log buffer after it had appended its record.
C34_FileOrderIsLsnOrder ==
  \A i \in 1..Len(mtr_hist) : \A j \in 1..Len(mtr_hist) :
    (/\ i < j
     /\ mtr_hist[i].commit_lsn # 0
     /\ mtr_hist[j].commit_lsn # 0)
      => mtr_hist[i].commit_lsn < mtr_hist[j].commit_lsn

(***************************************************************************)
(* The bytes of the log buffer across log_buffer_switch().  SwitchSpec     *)
(* gives log_sys a field buf with the content of the two halves of the     *)
(* buffer, one tag for each 512-byte block that has been written: the lsn  *)
(* at the end of the last log_write_low() that stored bytes in the block.  *)
(* A block that was never written has the tag 0.                           *)
(***************************************************************************)
MaxBufAppends == 5
BufLens == {100, 600, 2000}

\* the half of the buffer log_sys.buf points to
active_half(ls) == IF ls.first_in_use THEN "first" ELSE "second"

\* the content of block b of a half
block_of(half, b) == IF b \in DOMAIN half THEN half[b] ELSE 0

\* a half after blocks bs got the content tag
store_blocks(half, bs, tag) ==
  [b \in DOMAIN half \cup bs |-> IF b \in bs THEN tag ELSE half[b]]

\* variant: the switch does not copy the last block to the new half
log_buffer_switch_no_memcpy(ls) == log_buffer_switch(ls)

\* log_buffer_switch() with the memcpy() of the last written block,
\* old_buf + area_end - OS_FILE_LOG_BLOCK_SIZE, to the start of the half
\* that becomes log_sys.buf
log_buffer_switch_memcpy(ls) ==
  LET area_end == ut_calc_align(ls.buf_free, OS_FILE_LOG_BLOCK_SIZE)
      old_half == active_half(ls)
      new_half == IF ls.first_in_use THEN "second" ELSE "first"
      last_block == block_of(ls.buf[old_half],
                             area_end \div OS_FILE_LOG_BLOCK_SIZE - 1)
  IN log_buffer_switch(
       [ls EXCEPT !.buf[new_half] = store_blocks(@, {0}, last_block)])

\* log_write_low(): the memcpy() calls into log_sys.buf + log_sys.buf_free
\* and the header of a block that is begun
log_write_low_memcpy(ls, str_len) ==
  LET after == log_write_low(ls, str_len)
      touched == (ls.buf_free \div OS_FILE_LOG_BLOCK_SIZE)
                 .. (after.buf_free \div OS_FILE_LOG_BLOCK_SIZE)
  IN [after EXCEPT !.buf[active_half(ls)] =
                     store_blocks(@, touched, after.lsn)]

SwitchInit ==
  /\ log_sys = [lsn |-> 1, buf_free |-> 0, first_in_use |-> TRUE,
                max_buf_free |-> InitLogBufferSize \div LOG_BUF_FLUSH_RATIO
                                 - LOG_BUF_FLUSH_MARGIN,
                check_flush_or_checkpoint |-> TRUE,
                buf_next_to_write |-> 0, write_lsn |-> 0,
                flushed_to_disk_lsn |-> 0, log_capacity |-> 0,
                max_modified_age_async |-> 0, max_modified_age_sync |-> 0,
                max_checkpoint_age_async |-> 0, max_checkpoint_age |-> 0,
                next_checkpoint_no |-> 0, next_checkpoint_lsn |-> 0,
                n_pending_checkpoint_writes |-> 0,
                last_checkpoint_lsn |-> 1,
                buf |-> [first |-> <<>>, second |-> <<>>]]
  /\ srv_log_buffer_size = InitLogBufferSize
  /\ log_mutex = NoThread
  /\ log_flush_order_mutex = NoThread
  /\ write_lock = [value |-> 0, pending |-> 0, owner |-> NoThread]
  /\ flush_lock = [value |-> 0, pending |-> 0, owner |-> NoThread]
  /\ new_redo = initialize_files(DataFileSize)
  /\ buf_pool = [p \in Pages |->
                   [oldest_modification |-> 0, newest_modification |-> 0,
                    x_latch |-> NoThread, s_latch |-> {}]]
  /\ pc = [t \in Threads |-> "idle"]
  /\ mtr = [t \in Threads |-> NoMtr]
  /\ loc = [t \in Threads |-> NoLoc]
  /\ aborted = FALSE
  /\ mtr_hist = <<>>
  /\ flush_hist = <<>>
  /\ ckpt_hist = <<>>
  /\ io_error = FALSE
  /\ empty_commit = FALSE
  /\ release_hist = <<>>
  /\ srv = NoSrv
  /\ capacity_hist = NoCall
  /\ n_ops = 0
  /\ n_page_flushes = 0

\* a string of len bytes is stored under log_mutex: log_reserve_and_open()
\* finds room, log_write_low() copies
BufAppend(len) ==
  /\ n_ops < MaxBufAppends
  /\ reserve_has_room(log_sys, len, srv_log_buffer_size)
  /\ log_sys' = log_write_low_memcpy(log_sys, len)
  /\ n_ops' = n_ops + 1
  /\ UNCHANGED <<srv_log_buffer_size, locks, new_redo, buf_pool, pc, mtr,
                 loc, aborted, hists, srv, n_page_flushes>>

\* log_write() with bytes to write: log_buffer_switch()
BufSwitch ==
  /\ log_sys.buf_free # log_sys.buf_next_to_write
  /\ log_sys' = log_buffer_switch_memcpy(log_sys)
  /\ UNCHANGED <<srv_log_buffer_size, locks, new_redo, buf_pool, pc, mtr,
                 loc, aborted, hists, srv, counts>>

SwitchNext ==
  \/ \E len \in BufLens : BufAppend(len)
  \/ BufSwitch

SwitchSpec == SwitchInit /\ [][SwitchNext]_vars

\* C35: a buffer switch toggles first_in_use, copies the last block of the
\* old active half, which may be partly filled, to the start of the new
\* active half, sets buf_free to its old value modulo 512 and
\* buf_next_to_write to the new buf_free, and leaves lsn alone; the block in
\* progress has in the new half the bytes it had before the switch, and the
\* old half keeps its bytes for the write that follows.
C35_BufferSwitch ==
  [][log_sys'.first_in_use # log_sys.first_in_use =>
       LET old_half == active_half(log_sys)
           new_half == active_half(log_sys')
           last == (log_sys.buf_free - 1) \div OS_FILE_LOG_BLOCK_SIZE
       IN /\ log_sys'.first_in_use = ~log_sys.first_in_use
          /\ log_sys'.buf_free = log_sys.buf_free % OS_FILE_LOG_BLOCK_SIZE
          /\ log_sys'.buf_next_to_write = log_sys'.buf_free
          /\ log_sys'.lsn = log_sys.lsn
          /\ log_sys.buf_free > 0
          /\ block_of(log_sys'.buf[new_half], 0)
               = block_of(log_sys.buf[old_half], last)
          /\ block_of(log_sys.buf[old_half], last) # 0
          /\ log_sys'.buf[old_half] = log_sys.buf[old_half]]_vars

\* after two switches the first half is active again, its first block holds
\* the partly filled block that was last in the second half, and the second
\* half still holds that block further up
C35_Witness ==
  /\ log_sys.first_in_use
  /\ log_sys.buf_free = log_sys.buf_next_to_write
  /\ log_sys.buf_free % OS_FILE_LOG_BLOCK_SIZE > LOG_BLOCK_HDR_SIZE
  /\ log_sys.lsn > 2000
  /\ \E b \in DOMAIN log_sys.buf.second :
       /\ b > 0
       /\ log_sys.buf.second[b] = block_of(log_sys.buf.first, 0)
       /\ log_sys.buf.second[b] # block_of(log_sys.buf.second, 0)

(***************************************************************************)
(* log_check_margins(): the loop over log_flush_margin() and               *)
(* log_checkpoint_margin() until the flag is seen clear                    *)
(***************************************************************************)
\* a thread that owns no synchronization objects calls log_check_margins()
CallLogCheckMargins(t) ==
  /\ Running
  /\ pc[t] = "idle"
  /\ pc' = [pc EXCEPT ![t] = "lcm_flush_margin"]
  /\ loc' = [loc EXCEPT ![t].cm_ret = "lcm_check"]
  /\ UNCHANGED <<log_sys, srv_log_buffer_size, locks, new_redo, buf_pool, mtr,
                 aborted, hists, srv, counts>>

\* log_flush_margin(): if (log_sys.buf_free > log_sys.max_buf_free)
\* log_write_up_to(log_sys.lsn, false); then log_checkpoint_margin()
LogFlushMargin(t) ==
  /\ Running
  /\ pc[t] = "lcm_flush_margin"
  /\ log_mutex = NoThread
  /\ IF log_sys.buf_free > log_sys.max_buf_free
     THEN /\ loc' = [loc EXCEPT ![t].wut_lsn = log_sys.lsn,
                                ![t].wut_flush = FALSE,
                                ![t].wut_ret = "cm_loop"]
          /\ pc' = [pc EXCEPT ![t] = "wut_begin"]
     ELSE /\ pc' = [pc EXCEPT ![t] = "cm_loop"]
          /\ UNCHANGED loc
  /\ UNCHANGED <<log_sys, srv_log_buffer_size, locks, new_redo, buf_pool, mtr,
                 aborted, hists, srv, counts>>

\* log_mutex_enter(); check = log_sys.check_flush_or_checkpoint;
\* log_mutex_exit(); while (check)
LogCheckMarginsCheck(t) ==
  /\ Running
  /\ pc[t] = "lcm_check"
  /\ log_mutex = NoThread
  /\ IF log_sys.check_flush_or_checkpoint
     THEN /\ pc' = [pc EXCEPT ![t] = "lcm_flush_margin"]
          /\ UNCHANGED loc
     ELSE /\ pc' = [pc EXCEPT ![t] = "idle"]
          /\ loc' = [loc EXCEPT ![t].cm_ret = "idle"]
  /\ UNCHANGED <<log_sys, srv_log_buffer_size, locks, new_redo, buf_pool, mtr,
                 aborted, hists, srv, counts>>

\* t1 calls log_check_margins() again and again while t2 commits
\* mini-transactions that write redo log and makes checkpoints
MaxCheckOps == 2
CheckThread == "t1"
CheckWorker == "t2"

CheckMarginsNext ==
  \/ /\ n_ops < MaxCheckOps
     /\ MtrStartMargin(CheckWorker)
     /\ mtr'[CheckWorker].m_log_size # 0
  \/ n_ops < MaxCheckOps /\ CallLogCheckpoint(CheckWorker)
  \/ CallLogCheckMargins(CheckThread)
  \/ LogFlushMargin(CheckThread)
  \/ LogCheckMarginsCheck(CheckThread)
  \/ pc[CheckThread] # "idle" /\ LogCheckpointMargin(CheckThread)
  \/ LogCheckpointMarginAdvance(CheckThread)
  \/ LogPreflushPages(CheckThread)
  \/ LogSetCapacity
  \/ \E t \in Threads : MtrCommit(t)
  \/ \E t \in Threads : LogBufferExtend(t)
  \/ \E t \in Threads : PrepareWriteEnter(t)
  \/ \E t \in Threads : LogMutexReenter(t)
  \/ \E t \in Threads : FinishWrite(t)
  \/ \E t \in Threads : ReserveAndWrite(t)
  \/ \E t \in Threads : LogBufferSyncInBackground(t)
  \/ \E t \in Threads : MtrFlushOrderEnter(t)
  \/ \E t \in Threads : MtrLogMutexExit(t)
  \/ \E t \in Threads : MtrReleaseBlocks(t)
  \/ \E t \in Threads : MtrReleaseLatches(t)
  \/ \E t \in Threads : LogWriteUpToBegin(t)
  \/ \E t \in Threads : LogWriteAcquire(t)
  \/ \E t \in Threads : LogWrite(t)
  \/ \E t \in Threads : LogWriteBuf(t)
  \/ \E t \in Threads : LogWriteUpToFlush(t)
  \/ \E t \in Threads : LogWriteFlushToDiskLow(t)
  \/ \E t \in Threads : LogWriteUpToReturn(t)
  \/ \E t \in Threads : LogCheckpointBegin(t)
  \/ \E t \in Threads : LogCheckpointAfterWrite(t)
  \/ \E t \in Threads : LogCheckpointAppend(t)
  \/ \E t \in Threads : LogCheckpointFinish(t)
  \/ \E t \in Threads : LogCheckpointReturn(t)
  \/ \E p \in Pages : BufFlushPage(p)

\* a step of thread t inside an operation it has begun
ThreadStep(t) ==
  \/ LogFlushMargin(t)
  \/ LogCheckMarginsCheck(t)
  \/ pc[t] # "idle" /\ LogCheckpointMargin(t)
  \/ LogCheckpointMarginAdvance(t)
  \/ LogPreflushPages(t)
  \/ MtrCommit(t)
  \/ PrepareWriteNoRedo(t)
  \/ LogBufferExtend(t)
  \/ PrepareWriteEnter(t)
  \/ LogMutexReenter(t)
  \/ FinishWrite(t)
  \/ ReserveAndWrite(t)
  \/ LogBufferSyncInBackground(t)
  \/ MtrFlushOrderEnter(t)
  \/ MtrLogMutexExit(t)
  \/ MtrReleaseBlocks(t)
  \/ MtrReleaseLatches(t)
  \/ LogWriteUpToBegin(t)
  \/ LogWriteAcquire(t)
  \/ LogWrite(t)
  \/ LogWriteBuf(t)
  \/ LogWriteUpToFlush(t)
  \/ LogWriteFlushToDiskLow(t)
  \/ LogWriteUpToReturn(t)
  \/ LogCheckpointBegin(t)
  \/ LogCheckpointAfterWrite(t)
  \/ LogCheckpointAppend(t)
  \/ LogCheckpointFinish(t)
  \/ LogCheckpointReturn(t)

\* log_preflush_pool_modified_pages() of thread t starts its flush batch
PreflushStarts(t) ==
  /\ pc[t] = "cm_advance"
  /\ LogCheckpointMarginAdvance(t)
  /\ pc'[t] # "cm_loop"

\* the threads are scheduled and get the mutexes they wait for; a preflush
\* that is tried again and again is started at last
CheckMarginsFair ==
  /\ \A t \in Threads : WF_vars(ThreadStep(t))
  /\ SF_vars(PreflushStarts(CheckThread))

CheckMarginsSpec == Init /\ [][CheckMarginsNext]_vars /\ CheckMarginsFair

InLogCheckMargins(t) == loc[t].cm_ret = "lcm_check"

\* C36: log_check_margins() returns, or the server has stopped on a fatal
\* error, once the threads are scheduled and a preflush is started at last;
\* it returns only from its check of the flag under log_mutex, with the flag
\* clear; the flag is cleared only when lsn - last_checkpoint_lsn is at most
\* max_checkpoint_age; and a preflush that could not be started sets it.
C36_CheckMargins ==
  /\ InLogCheckMargins(CheckThread)
       ~> (pc[CheckThread] = "idle" \/ aborted)
  /\ [][/\ \A t \in Threads :
             (InLogCheckMargins(t) /\ pc'[t] = "idle") =>
               /\ pc[t] = "lcm_check"
               /\ log_mutex = NoThread
               /\ ~log_sys.check_flush_or_checkpoint
               /\ log_sys' = log_sys
        /\ (log_sys.check_flush_or_checkpoint
            /\ ~log_sys'.check_flush_or_checkpoint) =>
             log_sys.lsn - log_sys.last_checkpoint_lsn
               <= log_sys.max_checkpoint_age
        /\ \A t \in Threads :
             (pc[t] = "cm_advance" /\ pc'[t] = "cm_loop") =>
               log_sys'.check_flush_or_checkpoint]_vars

\* log_check_margins() is about to return: it sees the flag clear after the
\* log had grown past max_checkpoint_age and a checkpoint has moved
\* last_checkpoint_lsn up
C36_Witness ==
  \E t \in Threads :
    /\ pc[t] = "lcm_check"
    /\ ~log_sys.check_flush_or_checkpoint
    /\ log_sys.lsn > log_sys.max_checkpoint_age + 1
    /\ log_sys.last_checkpoint_lsn > 1

(***************************************************************************)
(* log_reserve_and_open(): the wait for room in the log buffer.  Two       *)
(* threads commit mini-transactions that write redo log; the sizes are a   *)
(* small one, the largest that prepare_write() lets through without        *)
(* extending the buffer of 40960 bytes, and one that extends it.           *)
(***************************************************************************)
MaxReserveOps == 2
ReserveLens == {500, InitLogBufferSize \div 2 - 1, 200000}

MtrStartReserve(t) ==
  /\ n_ops < MaxReserveOps
  /\ mtr_start(t, ReserveLens)
  /\ mtr'[t].m_log_size # 0

ReserveNext ==
  \/ \E t \in Threads : MtrStartReserve(t)
  \/ LogSetCapacity
  \/ \E t \in Threads : MtrCommit(t)
  \/ \E t \in Threads : LogBufferExtend(t)
  \/ \E t \in Threads : PrepareWriteEnter(t)
  \/ \E t \in Threads : LogMutexReenter(t)
  \/ \E t \in Threads : FinishWrite(t)
  \/ \E t \in Threads : ReserveAndWrite(t)
  \/ \E t \in Threads : LogBufferSyncInBackground(t)
  \/ \E t \in Threads : MtrFlushOrderEnter(t)
  \/ \E t \in Threads : MtrLogMutexExit(t)
  \/ \E t \in Threads : MtrReleaseBlocks(t)
  \/ \E t \in Threads : MtrReleaseLatches(t)
  \/ \E t \in Threads : LogWriteUpToBegin(t)
  \/ \E t \in Threads : LogWriteAcquire(t)
  \/ \E t \in Threads : LogWrite(t)
  \/ \E t \in Threads : LogWriteBuf(t)
  \/ \E t \in Threads : LogWriteUpToFlush(t)
  \/ \E t \in Threads : LogWriteUpToReturn(t)

\* the threads are scheduled
ReserveFair == \A t \in Threads : WF_vars(ThreadStep(t))

ReserveSpec == Init /\ [][ReserveNext]_vars /\ ReserveFair

\* thread t is in log_reserve_and_open(): at its test under log_mutex, or
\* writing the buffer out, or about to take log_mutex again
InReserveAndOpen(t) ==
  \/ pc[t] \in {"reserve_open", "sync_bg", "reserve_reenter"}
  \/ loc[t].wut_ret = "reserve_reenter"

\* log_sys once the buffer has been written out by log_buffer_switch()
written_out(ls) == [ls EXCEPT !.buf_free = @ % OS_FILE_LOG_BLOCK_SIZE]

\* C37: log_reserve_and_open() returns, or the server has stopped on a fatal
\* error, for every length prepare_write() lets through: the length is at
\* most half the buffer, a buffer that has been written out has room for it,
\* and the function is left only by the test that finds room, with log_mutex
\* held.
C37_ReserveTerminates ==
  /\ \A t \in Threads :
       InReserveAndOpen(t) ~> (pc[t] = "flush_order" \/ aborted)
  /\ [](\A t \in Threads :
          InReserveAndOpen(t) =>
            /\ loc[t].len <= srv_log_buffer_size \div 2
            /\ reserve_has_room(written_out(log_sys), loc[t].len,
                                srv_log_buffer_size))
  /\ [][\A t \in Threads :
          (InReserveAndOpen(t) /\ ~InReserveAndOpen(t)') =>
            /\ pc[t] = "reserve_open"
            /\ reserve_has_room(log_sys, loc[t].len, srv_log_buffer_size)
            /\ pc'[t] = "flush_order"
            /\ log_mutex' = t]_vars

\* a thread has waited: it found no room, the buffer has been written out,
\* and there is room now for its string of more than a block
C37_Witness ==
  \E t \in Threads :
    /\ pc[t] = "reserve_reenter"
    /\ loc[t].len > OS_FILE_LOG_BLOCK_SIZE
    /\ log_sys.buf_free < OS_FILE_LOG_BLOCK_SIZE
    /\ reserve_has_room(log_sys, loc[t].len, srv_log_buffer_size)

(***************************************************************************)
(* Concurrent log_checkpoint() calls: both threads commit mini-transactions *)
(* that write redo log and call log_check_margins(), whose                 *)
(* log_checkpoint_margin() makes a checkpoint when the checkpoint age is   *)
(* past max_checkpoint_age_async                                           *)
(***************************************************************************)
MaxRaceOps == 2

CheckpointRaceNext ==
  \/ \E t \in Threads : /\ n_ops < MaxRaceOps
                        /\ MtrStartMargin(t)
                        /\ mtr'[t].m_log_size # 0
  \/ \E t \in Threads : CallLogCheckMargins(t)
  \/ \E t \in Threads : LogFlushMargin(t)
  \/ \E t \in Threads : LogCheckMarginsCheck(t)
  \/ \E t \in Threads : pc[t] # "idle" /\ LogCheckpointMargin(t)
  \/ \E t \in Threads : LogCheckpointMarginAdvance(t)
  \/ \E t \in Threads : LogPreflushPages(t)
  \/ LogSetCapacity
  \/ \E t \in Threads : MtrCommit(t)
  \/ \E t \in Threads : LogBufferExtend(t)
  \/ \E t \in Threads : PrepareWriteEnter(t)
  \/ \E t \in Threads : LogMutexReenter(t)
  \/ \E t \in Threads : FinishWrite(t)
  \/ \E t \in Threads : ReserveAndWrite(t)
  \/ \E t \in Threads : LogBufferSyncInBackground(t)
  \/ \E t \in Threads : MtrFlushOrderEnter(t)
  \/ \E t \in Threads : MtrLogMutexExit(t)
  \/ \E t \in Threads : MtrReleaseBlocks(t)
  \/ \E t \in Threads : MtrReleaseLatches(t)
  \/ \E t \in Threads : LogWriteUpToBegin(t)
  \/ \E t \in Threads : LogWriteAcquire(t)
  \/ \E t \in Threads : LogWrite(t)
  \/ \E t \in Threads : LogWriteBuf(t)
  \/ \E t \in Threads : LogWriteUpToFlush(t)
  \/ \E t \in Threads : LogWriteFlushToDiskLow(t)
  \/ \E t \in Threads : LogWriteUpToReturn(t)
  \/ \E t \in Threads : LogCheckpointBegin(t)
  \/ \E t \in Threads : LogCheckpointAfterWrite(t)
  \/ \E t \in Threads : LogCheckpointAppend(t)
  \/ \E t \in Threads : LogCheckpointFinish(t)
  \/ \E t \in Threads : LogCheckpointReturn(t)

CheckpointRaceSpec == Init /\ [][CheckpointRaceNext]_vars

\* C38: last_checkpoint_lsn never decreases and is never greater than lsn,
\* whatever the interleaving of the log_checkpoint() calls
C38_CheckpointLsnMonotonic ==
  /\ [](log_sys.last_checkpoint_lsn <= log_sys.lsn)
  /\ [][log_sys'.last_checkpoint_lsn >= log_sys.last_checkpoint_lsn]_vars

\* C39: flushed_to_disk_lsn <= write_lsn <= lsn in every state, neither
\* write_lsn nor flushed_to_disk_lsn ever decreases, and
\* log_write_flush_to_disk_low() is called with an lsn that is not below
\* flushed_to_disk_lsn, so that its ut_a() holds
C39_WrittenAndFlushedLsn ==
  /\ [](/\ log_sys.flushed_to_disk_lsn <= log_sys.write_lsn
        /\ log_sys.write_lsn <= log_sys.lsn
        /\ \A t \in Threads :
             pc[t] = "wut_flush_low" =>
               loc[t].wut_flush_lsn >= log_sys.flushed_to_disk_lsn)
  /\ [][/\ log_sys'.write_lsn >= log_sys.write_lsn
        /\ log_sys'.flushed_to_disk_lsn >= log_sys.flushed_to_disk_lsn]_vars

\* a second flush has moved flushed_to_disk_lsn up to a second write, while
\* more log is in the buffer
C39_Witness ==
  /\ log_sys.flushed_to_disk_lsn > 502
  /\ log_sys.flushed_to_disk_lsn = log_sys.write_lsn
  /\ log_sys.write_lsn < log_sys.lsn

(***************************************************************************)
(* The waits for log_mutex, log_flush_order_mutex, write_lock and           *)
(* flush_lock: both threads commit mini-transactions that modify the same  *)
(* page or no page, and call log_write_up_to() and log_checkpoint()        *)
(***************************************************************************)
DeadlockPage == "p1"

MtrStartModify(t) ==
  /\ MtrStart(t)
  /\ mtr'[t].m_modifications
  /\ \A p \in Pages \ {DeadlockPage} : buf_pool'[p] = buf_pool[p]

DeadlockNext ==
  \/ \E t \in Threads : MtrStartModify(t)
  \/ LogNext

DeadlockSpec == Init /\ [][DeadlockNext]_vars

\* thread t is inside an operation and cannot take its next step: it waits
\* for log_mutex, log_flush_order_mutex, write_lock or flush_lock
Blocked(t) == pc[t] # "idle" /\ ~ENABLED ThreadStep(t)

\* C40: no deadlock: while the server runs, in every state where threads are
\* inside a commit, a log_write_up_to() or a log_checkpoint(), one of them
\* can take its next step; the threads are never all blocked on log_mutex,
\* log_flush_order_mutex, write_lock, flush_lock or the mutex of the redo
\* file.
C40_NoDeadlock ==
  Running =>
    ((\E t \in Threads : pc[t] # "idle") =>
       (\E t \in Threads : pc[t] # "idle" /\ ~Blocked(t)))

\* a thread is blocked on log_mutex, which the other thread holds together
\* with log_flush_order_mutex in its own commit and can go on
C40_Witness ==
  \E t \in Threads : \E u \in Threads \ {t} :
    /\ Running
    /\ Blocked(t)
    /\ pc[t] = "pw_mutex"
    /\ log_mutex = u
    /\ log_flush_order_mutex = u
    /\ ~Blocked(u)

====
